---- MODULE Spec2Model ----
(***************************************************************************)
(* Execution and accounting engine of the basket replay                    *)
(* (src/basket_simulator.py): the order matcher match_order, the position  *)
(* ledger kept inline in run_basket_simulation, and the per-tick replay    *)
(* loop.  The matcher of src/simulate.py is modelled beside it.            *)
(*                                                                         *)
(* Python numbers are modelled exactly: int as Int, and every value that   *)
(* comes out of a true division as a normalised fraction [n, d].           *)
(***************************************************************************)
EXTENDS Integers, Sequences, FiniteSets, TLC

\* ------------------------------------------------------------------ bounds
\* price grid and level volume of the books the matcher is applied to
MatchMaxPrice == 3
MatchMaxVol == 2
\* largest order magnitude handed to the matcher
MaxQty == 3
\* price grid and level volume of the books the replay is fed
ReplayMaxPrice == 2
ReplayMaxVol == 2
\* largest order magnitude a strategy emits in the replay
ReplayMaxQty == 2
\* rows of input (so at most that many ticks), and orders handled in a run
MaxTicks == 2
MaxOrders == 3
\* fills applied when the ledger is driven directly
MaxFills == 3
\* most pieces an offsetting fill is cut into
MaxSplit == 3
\* ticks of the mean-reversion replay
MRTicks == 21
TraderMaxVol == 1
BasketTicks == 3
BasketThinVol == 2
\* build_order_depth reads the columns *_1 .. *_3: at most 3 levels a side
Depth == 3

\* the timestamps that occur in the input
TimeValues == {0, 100}

\* ------------------------------------------------------- exact arithmetic
Abs(x) == IF x < 0 THEN -x ELSE x

MinI(a, b) == IF a <= b THEN a ELSE b

RECURSIVE GCD(_, _)
GCD(a, b) == IF b = 0 THEN a ELSE GCD(b, a % b)

\* what a division by zero leaves in place of a number: Python raises
\* ZeroDivisionError there, so a state that holds this value is one the
\* program does not reach; every operation below passes it on
DivByZero == [n |-> 0, d |-> 0]

\* the fraction n/d in lowest terms with a positive denominator
Norm(n, d) ==
    IF d = 0 THEN DivByZero
    ELSE LET s == IF d < 0 THEN -1 ELSE 1
             g == GCD(Abs(n), Abs(d))
         IN  [n |-> (s * n) \div g, d |-> (s * d) \div g]

RInt(i) == [n |-> i, d |-> 1]

RAdd(a, b) == Norm(a.n * b.d + b.n * a.d, a.d * b.d)

RSub(a, b) == Norm(a.n * b.d - b.n * a.d, a.d * b.d)

RMul(a, b) == Norm(a.n * b.n, a.d * b.d)

\* a / b
RDiv(a, b) == Norm(a.n * b.d, a.d * b.n)

RZero == RInt(0)

\* a <= b and a < b, of two numbers
RLeq(a, b) == a.n * b.d <= b.n * a.d

RLess(a, b) == a.n * b.d < b.n * a.d

\* ------------------------------------------------------------- data model
\* datamodel.Order
Order(symbol, price, quantity) ==
    [symbol |-> symbol, price |-> price, quantity |-> quantity]

\* datamodel.OrderDepth: buy_orders price -> volume, sell_orders price -> -volume
OrderDepth(buy_orders, sell_orders) ==
    [buy_orders |-> buy_orders, sell_orders |-> sell_orders]

SetMin(S) == CHOOSE x \in S : \A y \in S : x <= y

SetMax(S) == CHOOSE x \in S : \A y \in S : x >= y

\* a sort that returns the largest element first
RECURSIVE SortedWrongWay(_)
SortedWrongWay(S) ==
    IF S = {} THEN << >>
    ELSE LET m == SetMax(S) IN << m >> \o SortedWrongWay(S \ {m})

\* sorted(S)
RECURSIVE SortedAsc(_)
SortedAsc(S) ==
    IF S = {} THEN << >>
    ELSE LET m == SetMin(S) IN << m >> \o SortedAsc(S \ {m})

\* sorted(S, reverse=True)
RECURSIVE SortedDesc(_)
SortedDesc(S) ==
    IF S = {} THEN << >>
    ELSE LET m == SetMax(S) IN << m >> \o SortedDesc(S \ {m})

\* ---------------------------------------------------------------- matcher
\* The value a match returns: the signed executed quantity, the execution
\* price, and (kept for the properties) the quantity the loop took at each
\* level it executed at, in the order it visited them.
Fill(qty, price, taken) ==
    [qty |-> qty, price |-> price, taken |-> taken, called |-> TRUE]

\* no match has been made yet
NoResult == [qty |-> 0, price |-> RZero, taken |-> << >>, called |-> FALSE]

\* a buy loop that executes the whole remaining quantity at the first level
\* it visits, whatever that level holds
BuyLoopNoCap(available_prices, depth, i, executed_qty, total_spent, remaining_qty, taken) ==
    IF i > Len(available_prices) \/ remaining_qty <= 0
    THEN [executed_qty |-> executed_qty, total |-> total_spent, taken |-> taken]
    ELSE [executed_qty |-> executed_qty + remaining_qty,
          total |-> total_spent + remaining_qty * available_prices[i],
          taken |-> Append(taken, << available_prices[i], remaining_qty >>)]

\* a buy loop that stops after the first level it executes at
BuyLoopFirstLevel(available_prices, depth, i, executed_qty, total_spent, remaining_qty, taken) ==
    LET hit == {k \in i..Len(available_prices) :
                   MinI(remaining_qty, -depth.sell_orders[available_prices[k]]) > 0}
    IN  IF hit = {}
        THEN [executed_qty |-> executed_qty, total |-> total_spent, taken |-> taken]
        ELSE LET k == SetMin(hit)
                 price == available_prices[k]
                 executed_at_price == MinI(remaining_qty, -depth.sell_orders[price])
             IN  [executed_qty |-> executed_qty + executed_at_price,
                  total |-> total_spent + executed_at_price * price,
                  taken |-> Append(taken, << price, executed_at_price >>)]

\* the buy loop: for price in available_prices over sell_orders
RECURSIVE BuyLoop(_, _, _, _, _, _, _)
BuyLoop(available_prices, depth, i, executed_qty, total_spent, remaining_qty, taken) ==
    IF i > Len(available_prices)
    THEN [executed_qty |-> executed_qty, total |-> total_spent, taken |-> taken]
    ELSE LET price == available_prices[i]
             available_at_price == -depth.sell_orders[price]
             executed_at_price == MinI(remaining_qty, available_at_price)
         IN  IF executed_at_price <= 0
             THEN BuyLoop(available_prices, depth, i + 1, executed_qty,
                          total_spent, remaining_qty, taken)
             ELSE IF remaining_qty - executed_at_price <= 0
                  THEN [executed_qty |-> executed_qty + executed_at_price,
                        total |-> total_spent + executed_at_price * price,
                        taken |-> Append(taken, << price, executed_at_price >>)]
                  ELSE BuyLoop(available_prices, depth, i + 1,
                               executed_qty + executed_at_price,
                               total_spent + executed_at_price * price,
                               remaining_qty - executed_at_price,
                               Append(taken, << price, executed_at_price >>))

\* the sell loop: for price in available_prices over buy_orders
RECURSIVE SellLoop(_, _, _, _, _, _, _)
SellLoop(available_prices, depth, i, executed_qty, total_received, remaining_qty, taken) ==
    IF i > Len(available_prices)
    THEN [executed_qty |-> executed_qty, total |-> total_received, taken |-> taken]
    ELSE LET price == available_prices[i]
             available_at_price == depth.buy_orders[price]
             executed_at_price == MinI(remaining_qty, available_at_price)
         IN  IF executed_at_price <= 0
             THEN SellLoop(available_prices, depth, i + 1, executed_qty,
                           total_received, remaining_qty, taken)
             ELSE IF remaining_qty - executed_at_price <= 0
                  THEN [executed_qty |-> executed_qty + executed_at_price,
                        total |-> total_received + executed_at_price * price,
                        taken |-> Append(taken, << price, executed_at_price >>)]
                  ELSE SellLoop(available_prices, depth, i + 1,
                                executed_qty + executed_at_price,
                                total_received + executed_at_price * price,
                                remaining_qty - executed_at_price,
                                Append(taken, << price, executed_at_price >>))

\* an execution price computed with floor division
ExecPriceFloor(total, executed_qty) ==
    IF executed_qty > 0 THEN RInt(total \div executed_qty) ELSE RZero

\* total / executed_qty if executed_qty > 0 else 0
ExecPrice(total, executed_qty) ==
    IF executed_qty > 0 THEN Norm(total, executed_qty) ELSE RZero

\* a market buy that reaches down to the worst ask
BuyOrderPriceSweep(order, depth) ==
    IF order.price = 0 /\ DOMAIN depth.sell_orders # {}
    THEN SetMax(DOMAIN depth.sell_orders)
    ELSE order.price

\* the reference price of a buy: the best ask for a market order (price 0)
BuyOrderPrice(order, depth) ==
    IF order.price = 0 /\ DOMAIN depth.sell_orders # {}
    THEN SetMin(DOMAIN depth.sell_orders)
    ELSE order.price

\* the reference price of a sell: the best bid for a market order (price 0)
SellOrderPrice(order, depth) ==
    IF order.price = 0 /\ DOMAIN depth.buy_orders # {}
    THEN SetMax(DOMAIN depth.buy_orders)
    ELSE order.price

\* a matcher whose sell side forgets the limit: every bid level is eligible
match_order_any_bid(order, depth) ==
    IF order.quantity > 0
    THEN LET order_price == BuyOrderPrice(order, depth)
             available_prices ==
                 SortedAsc({p \in DOMAIN depth.sell_orders : p <= order_price})
             r == BuyLoop(available_prices, depth, 1, 0, 0, order.quantity, << >>)
         IN  Fill(r.executed_qty, ExecPrice(r.total, r.executed_qty), r.taken)
    ELSE LET available_prices == SortedDesc(DOMAIN depth.buy_orders)
             r == SellLoop(available_prices, depth, 1, 0, 0, -order.quantity, << >>)
         IN  Fill(-r.executed_qty, ExecPrice(r.total, r.executed_qty), r.taken)

\* a matcher whose buy side takes only asks strictly below the order's price
match_order_strict_buy(order, depth) ==
    IF order.quantity > 0
    THEN LET order_price == BuyOrderPrice(order, depth)
             available_prices ==
                 SortedAsc({p \in DOMAIN depth.sell_orders : p < order_price})
             r == BuyLoop(available_prices, depth, 1, 0, 0, order.quantity, << >>)
         IN  Fill(r.executed_qty, ExecPrice(r.total, r.executed_qty), r.taken)
    ELSE LET order_price == SellOrderPrice(order, depth)
             available_prices ==
                 SortedDesc({p \in DOMAIN depth.buy_orders : p >= order_price})
             r == SellLoop(available_prices, depth, 1, 0, 0, -order.quantity, << >>)
         IN  Fill(-r.executed_qty, ExecPrice(r.total, r.executed_qty), r.taken)

\* basket_simulator.match_order
match_order(order, depth) ==
    IF order.quantity > 0
    THEN LET order_price == BuyOrderPrice(order, depth)
             available_prices ==
                 SortedAsc({p \in DOMAIN depth.sell_orders : p <= order_price})
             r == BuyLoop(available_prices, depth, 1, 0, 0, order.quantity, << >>)
         IN  Fill(r.executed_qty, ExecPrice(r.total, r.executed_qty), r.taken)
    ELSE LET order_price == SellOrderPrice(order, depth)
             available_prices ==
                 SortedDesc({p \in DOMAIN depth.buy_orders : p >= order_price})
             r == SellLoop(available_prices, depth, 1, 0, 0, -order.quantity, << >>)
         IN  Fill(-r.executed_qty, ExecPrice(r.total, r.executed_qty), r.taken)

\* a matcher that takes what it executes out of the book it was given
BookAfterMatchConsumed(order, depth) ==
    LET f == match_order(order, depth)
        at(p) == IF \E i \in DOMAIN f.taken : f.taken[i][1] = p
                 THEN f.taken[CHOOSE i \in DOMAIN f.taken : f.taken[i][1] = p][2]
                 ELSE 0
    IN  IF order.quantity > 0
        THEN OrderDepth(depth.buy_orders,
                        [p \in DOMAIN depth.sell_orders |-> depth.sell_orders[p] + at(p)])
        ELSE OrderDepth([p \in DOMAIN depth.buy_orders |-> depth.buy_orders[p] - at(p)],
                        depth.sell_orders)

\* the book after match_order(order, depth) has returned: the function reads
\* order_depth.sell_orders / buy_orders and assigns to neither
BookAfterMatch(order, depth) == depth

\* simulate.match_order: the same loops, with no market-order reference price
sim_match_order(order, depth) ==
    IF order.quantity > 0
    THEN LET available_prices ==
                 SortedAsc({p \in DOMAIN depth.sell_orders : p <= order.price})
             r == BuyLoop(available_prices, depth, 1, 0, 0, order.quantity, << >>)
         IN  Fill(r.executed_qty, ExecPrice(r.total, r.executed_qty), r.taken)
    ELSE LET available_prices ==
                 SortedDesc({p \in DOMAIN depth.buy_orders : p >= order.price})
             r == SellLoop(available_prices, depth, 1, 0, 0, -order.quantity, << >>)
         IN  Fill(-r.executed_qty, ExecPrice(r.total, r.executed_qty), r.taken)

\* MarketMaking/simulate.match_order: the matcher of the market-making replay
mm_match_order(order, depth) ==
    IF order.quantity > 0
    THEN LET available_prices ==
                 SortedAsc({p \in DOMAIN depth.sell_orders : p <= order.price})
             r == BuyLoop(available_prices, depth, 1, 0, 0, order.quantity, << >>)
         IN  Fill(r.executed_qty, ExecPrice(r.total, r.executed_qty), r.taken)
    ELSE LET available_prices ==
                 SortedDesc({p \in DOMAIN depth.buy_orders : p >= order.price})
             r == SellLoop(available_prices, depth, 1, 0, 0, -order.quantity, << >>)
         IN  Fill(-r.executed_qty, ExecPrice(r.total, r.executed_qty), r.taken)

\* ------------------------------------------------------------------ books
\* the instruments of the basket replay
Products == {"PICNIC_BASKET1", "CROISSANTS", "JAMS", "DJEMBES"}

\* one side of a book: up to Depth levels, each price -> volume in 1..maxVol
Ladders(maxPrice, maxVol) ==
    UNION {[L -> 1..maxVol] : L \in {K \in SUBSET (1..maxPrice) : Cardinality(K) <= Depth}}

\* build_order_depth: bids stored as +volume, asks as -volume; the snapshots
\* are exchange books, so the best bid lies below the best ask
BooksOf(maxPrice, maxVol) ==
    {OrderDepth(b, [p \in DOMAIN a |-> -a[p]]) :
        <<b, a>> \in {x \in Ladders(maxPrice, maxVol) \X Ladders(maxPrice, maxVol) :
                        \A pb \in DOMAIN x[1], pa \in DOMAIN x[2] : pb < pa}}

MatchBooks == BooksOf(MatchMaxPrice, MatchMaxVol)

\* orders handed to the matcher: market (price 0) and limit, buys, sells and
\* the zero quantity
MatchOrders ==
    {Order("PICNIC_BASKET1", pr, q) : pr \in 0..(MatchMaxPrice + 1), q \in (-MaxQty)..MaxQty}

NoOrder == Order("", 0, 0)

\* the book of the design's worked example: bids 99 x 10 and 98 x 5, asks
\* 101 x 4 and 103 x 6, as build_order_depth stores it
ScenarioBook ==
    OrderDepth((99 :> 10) @@ (98 :> 5), (101 :> -4) @@ (103 :> -6))

\* the orders of the example: a market buy of 10 and a limit buy of 10 at 103
ScenarioMarketBuy == Order("PICNIC_BASKET1", 0, 10)

ScenarioLimitBuy == Order("PICNIC_BASKET1", 103, 10)

\* the calls of match_order that are examined: every bounded order against
\* every bounded book, and the example's orders against the example's book
MatchCalls ==
    (MatchOrders \X MatchBooks)
        \cup ({ScenarioMarketBuy, ScenarioLimitBuy} \X {ScenarioBook})

\* ----------------------------------------------------------------- ledger
\* a trade_pnl that realises the whole fill, not just the part that closes
TradePnlWholeFill(old_position, cost, executed_qty, executed_price) ==
    IF (old_position > 0 /\ executed_qty < 0) \/ (old_position < 0 /\ executed_qty > 0)
    THEN LET avg_cost == RDiv(cost, RInt(old_position))
         IN  IF old_position > 0
             THEN RMul(RSub(executed_price, avg_cost), RInt(Abs(executed_qty)))
             ELSE RMul(RSub(avg_cost, executed_price), RInt(Abs(executed_qty)))
    ELSE RZero

\* a trade_pnl that realises against the average entry on every fill of a
\* held position, whatever its direction
TradePnlAnyDirection(old_position, cost, executed_qty, executed_price) ==
    IF old_position # 0
    THEN LET closing_qty == MinI(Abs(old_position), Abs(executed_qty))
             avg_cost == RDiv(cost, RInt(old_position))
         IN  IF old_position > 0
             THEN RMul(RSub(executed_price, avg_cost), RInt(closing_qty))
             ELSE RMul(RSub(avg_cost, executed_price), RInt(closing_qty))
    ELSE RZero

\* trade_pnl of one fill: non-zero only when the fill opposes the position
TradePnl(old_position, cost, executed_qty, executed_price) ==
    IF (old_position > 0 /\ executed_qty < 0) \/ (old_position < 0 /\ executed_qty > 0)
    THEN LET closing_qty == MinI(Abs(old_position), Abs(executed_qty))
             avg_cost == IF old_position # 0 THEN RDiv(cost, RInt(old_position))
                         ELSE RZero
         IN  IF old_position > 0
             THEN RMul(RSub(executed_price, avg_cost), RInt(closing_qty))
             ELSE RMul(RSub(avg_cost, executed_price), RInt(closing_qty))
    ELSE RZero

\* a cost basis kept as running cash: every fill adds quantity x price
NewCostRunningCash(old_position, cost, executed_qty, executed_price) ==
    IF old_position = 0
    THEN RMul(RInt(executed_qty), executed_price)
    ELSE IF old_position + executed_qty # 0 /\ (old_position + executed_qty) * old_position < 0
         THEN RMul(RInt(old_position + executed_qty), executed_price)
         ELSE RAdd(cost, RMul(RInt(executed_qty), executed_price))

\* a cost basis that a partial close leaves as it was
NewCostKeepBasis(old_position, cost, executed_qty, executed_price) ==
    IF old_position = 0
    THEN RMul(RInt(executed_qty), executed_price)
    ELSE IF (old_position > 0 /\ executed_qty > 0) \/ (old_position < 0 /\ executed_qty < 0)
         THEN RAdd(cost, RMul(RInt(executed_qty), executed_price))
         ELSE LET remaining_qty == old_position + executed_qty
              IN  IF remaining_qty * old_position < 0
                  THEN RMul(RInt(remaining_qty), executed_price)
                  ELSE IF remaining_qty = 0 THEN RZero ELSE cost

\* a cost basis that a partial close scales by the part that was closed
NewCostScaleByFill(old_position, cost, executed_qty, executed_price) ==
    IF old_position = 0
    THEN RMul(RInt(executed_qty), executed_price)
    ELSE IF (old_position > 0 /\ executed_qty > 0) \/ (old_position < 0 /\ executed_qty < 0)
         THEN RAdd(cost, RMul(RInt(executed_qty), executed_price))
         ELSE LET remaining_qty == old_position + executed_qty
              IN  IF remaining_qty * old_position < 0
                  THEN RMul(RInt(remaining_qty), executed_price)
                  ELSE RMul(cost, Norm(Abs(executed_qty), Abs(old_position)))

\* position_cost[product] after one fill
NewCost(old_position, cost, executed_qty, executed_price) ==
    IF old_position = 0
    THEN RMul(RInt(executed_qty), executed_price)
    ELSE IF (old_position > 0 /\ executed_qty > 0) \/ (old_position < 0 /\ executed_qty < 0)
         THEN RAdd(cost, RMul(RInt(executed_qty), executed_price))
         ELSE LET remaining_qty == old_position + executed_qty
              IN  IF remaining_qty * old_position < 0
                  THEN RMul(RInt(remaining_qty), executed_price)
                  ELSE LET old_abs_qty == Abs(old_position)
                           new_abs_qty == Abs(remaining_qty)
                       IN  RMul(cost, Norm(new_abs_qty, old_abs_qty))

\* (best_bid + best_ask) / 2
MidPrice(depth) ==
    Norm(SetMax(DOMAIN depth.buy_orders) + SetMin(DOMAIN depth.sell_orders), 2)

TwoSided(depth) == DOMAIN depth.buy_orders # {} /\ DOMAIN depth.sell_orders # {}

\* last_prices rebuilt from this tick's two-sided books alone
UpdateLastPricesThisTick(last, depths) ==
    [p \in {q \in DOMAIN depths : TwoSided(depths[q])} |-> MidPrice(depths[p])]

\* last_prices after the rows of one tick have been read
UpdateLastPrices(last, depths) ==
    [p \in DOMAIN last \cup {q \in DOMAIN depths : TwoSided(depths[q])} |->
        IF p \in DOMAIN depths /\ TwoSided(depths[p]) THEN MidPrice(depths[p])
        ELSE last[p]]

\* a mark whose short branch uses the long branch's difference
MarkTermLongOnly(pos, cost, last_price) ==
    LET avg_cost == RDiv(cost, RInt(pos))
    IN  RMul(RSub(last_price, avg_cost), RInt(Abs(pos)))

\* one instrument's term of the mark-to-market sum
MarkTerm(pos, cost, last_price) ==
    LET avg_cost == RDiv(cost, RInt(pos))
    IN  IF pos > 0
        THEN RMul(RSub(last_price, avg_cost), RInt(pos))
        ELSE RMul(RSub(avg_cost, last_price), RInt(Abs(pos)))

RECURSIVE SumMarks(_, _, _, _)
SumMarks(S, pos, cost, last) ==
    IF S = {} THEN RZero
    ELSE LET p == CHOOSE x \in S : TRUE
         IN  RAdd(MarkTerm(pos[p], cost[p], last[p]), SumMarks(S \ {p}, pos, cost, last))

\* a mark-to-market sum without the "pos != 0" test
UnrealizedUnguarded(pos, cost, last) ==
    SumMarks({p \in Products : p \in DOMAIN last}, pos, cost, last)

\* unrealized_pnl: the sum over the instruments held and priced so far
Unrealized(pos, cost, last) ==
    SumMarks({p \in Products : pos[p] # 0 /\ p \in DOMAIN last}, pos, cost, last)

\* the timestamp column as it stands in the file, row by row
RawOrder(raw) == raw

\* sorted(prices_df["timestamp"].unique())
SortedUnique(raw) == SortedAsc({raw[i] : i \in DOMAIN raw})

\* ------------------------------------------------------------------ state
VARIABLES
    pc,               \* where the program is
    timestamps,       \* the sorted distinct timestamps of the input
    ti,               \* how many of them the loop has started
    order_depths,     \* the current tick's books: product -> OrderDepth
    n_orders,         \* orders the order loop has handled so far in the run
    position,         \* product -> signed quantity held
    position_cost,    \* product -> total cost of the held quantity
    realized_pnl,
    last_prices,      \* product -> latest mid-price seen
    order_log,        \* the fills, oldest first
    equity_curve_log, \* one snapshot a tick, oldest first
    m_order,          \* the order of the latest match_order call
    m_result,         \* what basket_simulator.match_order returned for it
    sim_result,       \* what simulate.match_order returned for it
    mm_result,        \* what MarketMaking/simulate.match_order returned for it
    state_position,   \* the dict(position) handed to the strategy, as it left it
    built_depths,     \* the tick's books as build_order_depth made them
    orders,           \* the orders the strategy or trader emitted, in order
    in_position,      \* PicnicBasketArbStrategy.in_position
    window,           \* Trader.window[product] of src/MarketMaking.py
    cost_basis,       \* Trader.cost_basis of MarketMaking/MarketMaking.py
    trader_realized_pnl, \* Trader.realized_pnl of MarketMaking/MarketMaking.py
    price_history     \* Trader.price_history[product] of MeanReversionTrader.py

\* the state of the strategies and of the other replays
extra == << mm_result, state_position, built_depths, orders, in_position,
            window, cost_basis, trader_realized_pnl, price_history >>

vars == << pc, timestamps, ti, order_depths, n_orders, position, position_cost,
           realized_pnl, last_prices, order_log, equity_curve_log,
           m_order, m_result, sim_result, extra >>

ledger == << position, position_cost, realized_pnl, order_log >>

\* the strategies and the other replays before anything has run
ExtraIdle ==
    /\ mm_result = NoResult
    /\ state_position = << >>
    /\ built_depths = << >>
    /\ orders = << >>
    /\ in_position = FALSE
    /\ window = << >>
    /\ cost_basis = << >>
    /\ trader_realized_pnl = << >>
    /\ price_history = << >>

\* the state run_basket_simulation sets up before its loop
FreshLedger ==
    /\ position = [p \in Products |-> 0]
    /\ position_cost = [p \in Products |-> RZero]
    /\ realized_pnl = RZero
    /\ last_prices = << >>
    /\ order_log = << >>
    /\ equity_curve_log = << >>

\* ---------------------------------------------- the matcher on its own
InitMatch ==
    /\ pc = "match"
    /\ timestamps = << 0 >>
    /\ ti = 1
    /\ n_orders = 0
    /\ FreshLedger
    /\ \E c \in MatchCalls :
          /\ m_order = c[1]
          /\ order_depths = [p \in {c[1].symbol} |-> c[2]]
    /\ m_result = NoResult
    /\ sim_result = NoResult
    /\ ExtraIdle

\* executed_qty, executed_price = match_order(order, order_depths[product])
MatchStep ==
    /\ pc = "match"
    /\ m_result' = match_order(m_order, order_depths[m_order.symbol])
    /\ order_depths' = [order_depths EXCEPT ![m_order.symbol] = BookAfterMatch(m_order, @)]
    /\ pc' = "sim_match"
    /\ UNCHANGED << timestamps, ti, n_orders, ledger, last_prices,
                    equity_curve_log, m_order, sim_result >>
    /\ UNCHANGED extra

\* the same call through the matcher of simulate.py
SimMatchStep ==
    /\ pc = "sim_match"
    /\ sim_result' = sim_match_order(m_order, order_depths[m_order.symbol])
    /\ pc' = "matched"
    /\ UNCHANGED << timestamps, ti, order_depths, n_orders, ledger, last_prices,
                    equity_curve_log, m_order, m_result >>
    /\ UNCHANGED extra

\* the same call through the matcher of MarketMaking/simulate.py
MMMatchStep ==
    /\ pc = "matched"
    /\ mm_result' = mm_match_order(m_order, order_depths[m_order.symbol])
    /\ pc' = "mm_matched"
    /\ UNCHANGED << timestamps, ti, order_depths, n_orders, ledger, last_prices,
                    equity_curve_log, m_order, m_result, sim_result >>
    /\ UNCHANGED << state_position, built_depths, orders, in_position, window,
                    cost_basis, trader_realized_pnl, price_history >>

NextMatch == MatchStep \/ SimMatchStep \/ MMMatchStep

SpecMatch == InitMatch /\ [][NextMatch]_vars

\* ------------------------------------------------------- the basket replay
\* the instruments the replayed data and the strategy's orders are about
Traded == {"PICNIC_BASKET1", "CROISSANTS"}

\* the replay's books: one level a side at most, each of the full volume
ReplayBooks ==
    {b \in BooksOf(ReplayMaxPrice, ReplayMaxVol) :
        /\ Cardinality(DOMAIN b.buy_orders) <= 1
        /\ Cardinality(DOMAIN b.sell_orders) <= 1
        /\ DOMAIN b.buy_orders \cup DOMAIN b.sell_orders # {}
        /\ \A p \in DOMAIN b.buy_orders : b.buy_orders[p] = ReplayMaxVol
        /\ \A p \in DOMAIN b.sell_orders : b.sell_orders[p] = -ReplayMaxVol}

\* the rows of one timestamp: a book for each instrument that has a row
Snapshots ==
    UNION {[S -> ReplayBooks] : S \in SUBSET Traded}

\* what a strategy may emit: Strategy.buy / Strategy.sell build market orders
\* (price 0) of the strategy's quantity and instrument; the empty order at a
\* limit price is drawn as well
ReplayOrders ==
    {Order(s, 0, q) : s \in Traded, q \in (-ReplayMaxQty)..ReplayMaxQty}
        \cup {Order(s, pr, 0) : s \in Traded, pr \in 1..ReplayMaxPrice}

Init ==
    /\ pc = "loop"
    /\ timestamps \in {SortedUnique(raw) : raw \in [1..MaxTicks -> TimeValues]}
    /\ ti = 0
    /\ order_depths = << >>
    /\ n_orders = 0
    /\ FreshLedger
    /\ m_order = NoOrder
    /\ m_result = NoResult
    /\ sim_result = NoResult
    /\ ExtraIdle

\* for t in timestamps: build the books and last_prices of the tick, then call
\* the strategy (its orders are drawn as the order loop reaches them)
StartTick ==
    /\ pc = "loop"
    /\ ti < Len(timestamps)
    /\ ti' = ti + 1
    /\ \E snap \in Snapshots :
          /\ order_depths' = snap
          /\ last_prices' = UpdateLastPrices(last_prices, snap)
    /\ m_order' = NoOrder
    /\ m_result' = NoResult
    /\ pc' = "orders"
    /\ UNCHANGED << timestamps, n_orders, ledger, equity_curve_log, sim_result >>
    /\ UNCHANGED extra

\* a ledger update that keeps one cost basis for all the instruments
ApplyFillSharedBasis(t, product, executed_qty, executed_price) ==
    LET old_position == position[product]
        trade_pnl == TradePnl(old_position, position_cost[product],
                              executed_qty, executed_price)
        cost == NewCost(old_position, position_cost[product], executed_qty,
                        executed_price)
    IN  /\ realized_pnl' = RAdd(realized_pnl, trade_pnl)
        /\ position_cost' = [p \in DOMAIN position_cost |-> cost]
        /\ position' = [position EXCEPT ![product] = @ + executed_qty]
        /\ order_log' = Append(order_log,
              [timestamp |-> t, product |-> product, price |-> executed_price,
               quantity |-> executed_qty, trade_pnl |-> trade_pnl])

\* a ledger update that sets the position to the fill, not adding to it
ApplyFillSetPosition(t, product, executed_qty, executed_price) ==
    LET old_position == position[product]
        trade_pnl == TradePnl(old_position, position_cost[product],
                              executed_qty, executed_price)
    IN  /\ realized_pnl' = RAdd(realized_pnl, trade_pnl)
        /\ position_cost' =
              [position_cost EXCEPT ![product] =
                  NewCost(old_position, @, executed_qty, executed_price)]
        /\ position' = [position EXCEPT ![product] = executed_qty]
        /\ order_log' = Append(order_log,
              [timestamp |-> t, product |-> product, price |-> executed_price,
               quantity |-> executed_qty, trade_pnl |-> trade_pnl])

\* the body of "if executed_qty != 0": realise PnL, move the cost basis and
\* the position, log the fill
ApplyFill(t, product, executed_qty, executed_price) ==
    LET old_position == position[product]
        trade_pnl == TradePnl(old_position, position_cost[product],
                              executed_qty, executed_price)
    IN  /\ realized_pnl' = RAdd(realized_pnl, trade_pnl)
        /\ position_cost' =
              [position_cost EXCEPT ![product] =
                  NewCost(old_position, @, executed_qty, executed_price)]
        /\ position' = [position EXCEPT ![product] = @ + executed_qty]
        /\ order_log' = Append(order_log,
              [timestamp |-> t, product |-> product, price |-> executed_price,
               quantity |-> executed_qty, trade_pnl |-> trade_pnl])

\* a pass of the order loop without the "if executed_qty != 0" test
ProcessOrderUnguarded ==
    /\ pc = "orders"
    /\ n_orders < MaxOrders
    /\ \E order \in ReplayOrders :
          /\ order.symbol \in DOMAIN order_depths
          /\ LET f == match_order(order, order_depths[order.symbol])
             IN  /\ m_order' = order
                 /\ m_result' = f
                 /\ ApplyFill(timestamps[ti], order.symbol, f.qty, f.price)
          /\ order_depths' = [order_depths EXCEPT ![order.symbol] = BookAfterMatch(order, @)]
    /\ n_orders' = n_orders + 1
    /\ UNCHANGED << pc, timestamps, ti, last_prices, equity_curve_log, sim_result >>
    /\ UNCHANGED extra

\* one pass of the order loop for an order whose instrument has a book
ProcessOrder ==
    /\ pc = "orders"
    /\ n_orders < MaxOrders
    /\ \E order \in ReplayOrders :
          /\ order.symbol \in DOMAIN order_depths
          /\ LET f == match_order(order, order_depths[order.symbol])
             IN  /\ m_order' = order
                 /\ m_result' = f
                 /\ IF f.qty # 0
                    THEN ApplyFill(timestamps[ti], order.symbol, f.qty, f.price)
                    ELSE UNCHANGED ledger
          /\ order_depths' = [order_depths EXCEPT ![order.symbol] = BookAfterMatch(order, @)]
    /\ n_orders' = n_orders + 1
    /\ UNCHANGED << pc, timestamps, ti, last_prices, equity_curve_log, sim_result >>
    /\ UNCHANGED extra

\* an order whose instrument has no row in this tick: order_depths[product]
\* raises KeyError, which nothing catches, and the run ends there
ProcessOrderNoBook ==
    /\ pc = "orders"
    /\ n_orders < MaxOrders
    /\ \E order \in ReplayOrders :
          /\ order.symbol \notin DOMAIN order_depths
          /\ m_order' = order
    /\ pc' = "aborted"
    /\ UNCHANGED << timestamps, ti, order_depths, n_orders, ledger, last_prices,
                    equity_curve_log, m_result, sim_result >>
    /\ UNCHANGED extra

\* a tick end that stamps the snapshot with a time read from elsewhere
EndTickOtherClock ==
    /\ pc = "orders"
    /\ \E now \in TimeValues :
          LET unrealized_pnl == Unrealized(position, position_cost, last_prices)
          IN  equity_curve_log' = Append(equity_curve_log,
                 [timestamp |-> now,
                  realized_pnl |-> realized_pnl,
                  unrealized_pnl |-> unrealized_pnl,
                  total_pnl |-> RAdd(realized_pnl, unrealized_pnl),
                  positions |-> position])
    /\ pc' = "loop"
    /\ UNCHANGED << timestamps, ti, order_depths, n_orders, ledger, last_prices,
                    m_order, m_result, sim_result >>
    /\ UNCHANGED extra

\* the orders are done: mark to market and append the tick's snapshot
EndTick ==
    /\ pc = "orders"
    /\ LET unrealized_pnl == Unrealized(position, position_cost, last_prices)
       IN  equity_curve_log' = Append(equity_curve_log,
              [timestamp |-> timestamps[ti],
               realized_pnl |-> realized_pnl,
               unrealized_pnl |-> unrealized_pnl,
               total_pnl |-> RAdd(realized_pnl, unrealized_pnl),
               positions |-> position])
    /\ pc' = "loop"
    /\ UNCHANGED << timestamps, ti, order_depths, n_orders, ledger, last_prices,
                    m_order, m_result, sim_result >>
    /\ UNCHANGED extra

\* the loop has run out of timestamps
Finish ==
    /\ pc = "loop"
    /\ ti = Len(timestamps)
    /\ pc' = "done"
    /\ UNCHANGED << timestamps, ti, order_depths, n_orders, ledger, last_prices,
                    equity_curve_log, m_order, m_result, sim_result >>
    /\ UNCHANGED extra

Next == StartTick \/ ProcessOrder \/ ProcessOrderNoBook \/ EndTick \/ Finish

Spec == Init /\ [][Next]_vars

\* ------------------------------------- the replay with a writing strategy
\* The strategy is handed state.position = dict(position), a copy, and
\* state.order_depths = order_depths, the dict the order loop reads later.

\* the rows of one timestamp in this replay: a book for the basket
StrategySnapshots == [{"PICNIC_BASKET1"} -> ReplayBooks]

\* what a strategy may leave in the position map it was handed
StrategyPositionWrites(handed) ==
    {handed, [handed EXCEPT !["PICNIC_BASKET1"] = @ + 1]}

\* what a strategy may leave in the books it was handed
StrategyBookWrites(handed) ==
    {handed} \cup {[handed EXCEPT !["PICNIC_BASKET1"] = b] : b \in ReplayBooks}

\* a replay that hands the strategy its own position dict
PositionAfterStrategyShared(pos, written) == written

\* the ledger's position after the strategy wrote to the map it was handed:
\* position=dict(position) made that map a separate object
PositionAfterStrategy(pos, written) == pos

\* the order loop's books after the strategy wrote to the books it was
\* handed: order_depths=order_depths handed it the same object
DepthsAfterStrategy(depths, written) == written

\* for t in timestamps, up to the construction of TradingState
StartTickHanded ==
    /\ pc = "loop"
    /\ ti < Len(timestamps)
    /\ ti' = ti + 1
    /\ \E snap \in StrategySnapshots :
          /\ order_depths' = snap
          /\ built_depths' = snap
          /\ last_prices' = UpdateLastPrices(last_prices, snap)
    /\ state_position' = position
    /\ m_order' = NoOrder
    /\ m_result' = NoResult
    /\ pc' = "strategy"
    /\ UNCHANGED << timestamps, n_orders, ledger, equity_curve_log, sim_result,
                    mm_result, orders, in_position, window, cost_basis,
                    trader_realized_pnl, price_history >>

\* strategy.act(state), for a strategy that writes to what it was handed
StrategyCall ==
    /\ pc = "strategy"
    /\ \E wp \in StrategyPositionWrites(state_position),
          wd \in StrategyBookWrites(order_depths) :
          /\ state_position' = wp
          /\ position' = PositionAfterStrategy(position, wp)
          /\ order_depths' = DepthsAfterStrategy(order_depths, wd)
    /\ pc' = "orders"
    /\ UNCHANGED << timestamps, ti, n_orders, position_cost, realized_pnl,
                    order_log, last_prices, equity_curve_log, m_order, m_result,
                    sim_result, mm_result, built_depths, orders, in_position,
                    window, cost_basis, trader_realized_pnl, price_history >>

NextStrategy ==
    StartTickHanded \/ StrategyCall \/ ProcessOrder \/ ProcessOrderNoBook
        \/ EndTick \/ Finish

SpecStrategy == Init /\ [][NextStrategy]_vars

\* ------------------------------------------- the mean-reversion replay
\* simulate_mean_reversion.run_simulation with MeanReversionTrader.Trader
sma_window == 20

min_spread == 2

position_limit == 50

\* zscore_threshold = 1.5, exit_threshold = 0.3
zscore_threshold == Norm(3, 2)

exit_threshold == Norm(3, 10)

MRProducts == {"KELP"}

RECURSIVE RSeqSum(_)
RSeqSum(seq) ==
    IF seq = << >> THEN RZero ELSE RAdd(Head(seq), RSeqSum(Tail(seq)))

\* Trader.update_price_history
update_price_history(hist, mid_price) ==
    LET h == Append(hist, mid_price)
    IN  IF Len(h) > sma_window THEN Tail(h) ELSE h

\* Trader.calculate_zscore: the z-score is dev / sqrt(var); 0.0 is kept as
\* dev 0 over var 1
calculate_zscore(prices, current_price) ==
    LET n == Len(prices)
        mean == RDiv(RSeqSum(prices), RInt(n))
        var == RDiv(RSeqSum([i \in 1..n |-> RMul(RSub(prices[i], mean),
                                                  RSub(prices[i], mean))]),
                    RInt(n))
    IN  IF n < sma_window THEN [dev |-> RZero, var |-> RInt(1)]
        ELSE IF var = RZero THEN [dev |-> RZero, var |-> RInt(1)]
        ELSE [dev |-> RSub(current_price, mean), var |-> var]

\* zscore <= c and zscore >= c, for a number c
ZLeq(z, c) ==
    IF c.n < 0
    THEN z.dev.n < 0 /\ RLeq(RMul(RMul(c, c), z.var), RMul(z.dev, z.dev))
    ELSE z.dev.n <= 0 \/ RLeq(RMul(z.dev, z.dev), RMul(RMul(c, c), z.var))

ZGeq(z, c) ==
    ZLeq([dev |-> RSub(RZero, z.dev), var |-> z.var], RSub(RZero, c))

\* Trader.run for one product: the orders it returns and the history it keeps
MeanRevRun(product, order_depth, pos, hist) ==
    IF ~TwoSided(order_depth) THEN [orders |-> << >>, hist |-> hist]
    ELSE LET best_bid == SetMax(DOMAIN order_depth.buy_orders)
             best_ask == SetMin(DOMAIN order_depth.sell_orders)
             spread == best_ask - best_bid
             mid_price == Norm(best_bid + best_ask, 2)
             prices == update_price_history(hist, mid_price)
             zscore == calculate_zscore(prices, mid_price)
             remaining_buy == position_limit - pos
             remaining_sell == position_limit + pos
         IN  IF spread < min_spread THEN [orders |-> << >>, hist |-> hist]
             ELSE [hist |-> prices,
                   orders |->
                     IF ZLeq(zscore, RSub(RZero, zscore_threshold)) /\ remaining_buy > 0
                     THEN << Order(product,
                                   IF best_ask - 1 > best_bid THEN best_ask - 1 ELSE best_ask,
                                   MinI(10, remaining_buy)) >>
                     ELSE IF ZGeq(zscore, zscore_threshold) /\ remaining_sell > 0
                     THEN << Order(product,
                                   IF best_bid + 1 < best_ask THEN best_bid + 1 ELSE best_bid,
                                   -MinI(10, remaining_sell)) >>
                     ELSE IF pos > 0 /\ ~ZLeq(zscore, RSub(RZero, exit_threshold))
                     THEN << Order(product, best_bid, -MinI(10, pos)) >>
                     ELSE IF pos < 0 /\ ~ZGeq(zscore, exit_threshold)
                     THEN << Order(product, best_ask, -(IF pos > -10 THEN pos ELSE -10)) >>
                     ELSE << >>]

\* the books of the replayed data, level 1 only: the first sma_window - 1
\* rows hold one quiet book, the later rows any of these
MRQuietBook == OrderDepth(10 :> 3, 14 :> -3)

MRBooks ==
    {OrderDepth(10 :> bv, a :> -av) : bv \in {3}, a \in {11, 12, 14, 16}, av \in {3, 20}}
        \cup {OrderDepth(10 :> 3, << >>)}

MRBooksAt(row) == IF row < sma_window THEN {MRQuietBook} ELSE MRBooks

InitMeanRev ==
    /\ pc = "mr_loop"
    /\ timestamps = [i \in 1..MRTicks |-> (i - 1) * 100]
    /\ ti = 0
    /\ order_depths = << >>
    /\ n_orders = 0
    /\ position = [p \in MRProducts |-> 0]
    /\ position_cost = << >>
    /\ realized_pnl = RZero
    /\ last_prices = << >>
    /\ order_log = << >>
    /\ equity_curve_log = << >>
    /\ m_order = NoOrder
    /\ m_result = NoResult
    /\ sim_result = NoResult
    /\ ExtraIdle

\* for t in timestamps: the books, last_prices, and trader.run(state)
MRStartTick ==
    /\ pc = "mr_loop"
    /\ ti < Len(timestamps)
    /\ ti' = ti + 1
    /\ \E book \in MRBooksAt(ti + 1) :
          LET depths == [p \in MRProducts |-> book]
              r == MeanRevRun("KELP", book, position["KELP"], price_history)
          IN  /\ order_depths' = depths
              /\ last_prices' = UpdateLastPrices(last_prices, depths)
              /\ orders' = r.orders
              /\ price_history' = r.hist
    /\ m_order' = NoOrder
    /\ pc' = "mr_orders"
    /\ UNCHANGED << timestamps, n_orders, ledger, equity_curve_log, m_result,
                    sim_result, mm_result, state_position, built_depths,
                    in_position, window, cost_basis, trader_realized_pnl >>

\* one pass of the order loop: position[product] += order.quantity
MRProcessOrder ==
    /\ pc = "mr_orders"
    /\ orders # << >>
    /\ LET order == Head(orders)
       IN  /\ position' = [position EXCEPT ![order.symbol] = @ + order.quantity]
           /\ order_log' = Append(order_log,
                 [timestamp |-> timestamps[ti], product |-> order.symbol,
                  price |-> RInt(order.price), quantity |-> order.quantity])
           /\ m_order' = order
    /\ orders' = Tail(orders)
    /\ n_orders' = n_orders + 1
    /\ UNCHANGED << pc, timestamps, ti, order_depths, position_cost, realized_pnl,
                    last_prices, equity_curve_log, m_result, sim_result,
                    mm_result, state_position, built_depths, in_position,
                    window, cost_basis, trader_realized_pnl, price_history >>

\* the orders are done: value the positions and append the tick's record
MREndTick ==
    /\ pc = "mr_orders"
    /\ orders = << >>
    /\ equity_curve_log' = Append(equity_curve_log,
          [timestamp |-> timestamps[ti],
           positions |-> position,
           unrealized_value |->
               IF "KELP" \in DOMAIN last_prices
               THEN RMul(RInt(position["KELP"]), last_prices["KELP"])
               ELSE RZero])
    /\ pc' = "mr_loop"
    /\ UNCHANGED << timestamps, ti, order_depths, n_orders, ledger, last_prices,
                    m_order, m_result, sim_result, extra >>

MRFinish ==
    /\ pc = "mr_loop"
    /\ ti = Len(timestamps)
    /\ pc' = "mr_done"
    /\ UNCHANGED << timestamps, ti, order_depths, n_orders, ledger, last_prices,
                    equity_curve_log, m_order, m_result, sim_result, extra >>

NextMeanRev == MRStartTick \/ MRProcessOrder \/ MREndTick \/ MRFinish

SpecMeanRev == InitMeanRev /\ [][NextMeanRev]_vars

\* ---------------------------- the basket replay with its own strategy
\* run_basket_simulation driving PicnicBasketArbStrategy
z_entry == Norm(35, 100)

z_exit == Norm(2, 10)

mean == 50

std == 85

required == << "CROISSANTS", "JAMS", "DJEMBES", "PICNIC_BASKET1" >>

\* PicnicBasketArbStrategy.get_mid_price: 0 when a side of the book is empty
get_mid_price(depths, symbol) ==
    IF DOMAIN depths[symbol].buy_orders = {} \/ DOMAIN depths[symbol].sell_orders = {}
    THEN RZero
    ELSE Norm(SetMax(DOMAIN depths[symbol].buy_orders)
                + SetMin(DOMAIN depths[symbol].sell_orders), 2)

\* Strategy.buy / Strategy.sell: a market order (price 0) of the quantity
StrategyBuy(symbol, quantity) == Order(symbol, 0, quantity)

StrategySell(symbol, quantity) == Order(symbol, 0, -quantity)

short_basket_long_components ==
    << StrategySell("PICNIC_BASKET1", 1), StrategyBuy("CROISSANTS", 6),
       StrategyBuy("JAMS", 3), StrategyBuy("DJEMBES", 1) >>

long_basket_short_components ==
    << StrategyBuy("PICNIC_BASKET1", 1), StrategySell("CROISSANTS", 6),
       StrategySell("JAMS", 3), StrategySell("DJEMBES", 1) >>

\* PicnicBasketArbStrategy.exit_position
exit_position(pos, symbol) ==
    IF pos[symbol] > 0 THEN << StrategySell(symbol, pos[symbol]) >>
    ELSE IF pos[symbol] < 0 THEN << StrategyBuy(symbol, -pos[symbol]) >>
    ELSE << >>

exit_all(pos) ==
    exit_position(pos, "PICNIC_BASKET1") \o exit_position(pos, "CROISSANTS")
        \o exit_position(pos, "JAMS") \o exit_position(pos, "DJEMBES")

\* the z-score of act: (basket - (6 croissant + 3 jam + djembe) - mean) / std
BasketZ(depths) ==
    LET croissant == get_mid_price(depths, "CROISSANTS")
        jam == get_mid_price(depths, "JAMS")
        djembe == get_mid_price(depths, "DJEMBES")
        basket == get_mid_price(depths, "PICNIC_BASKET1")
        fair_value == RAdd(RAdd(RMul(RInt(6), croissant), RMul(RInt(3), jam)), djembe)
        spread == RSub(basket, fair_value)
    IN  RDiv(RSub(spread, RInt(mean)), RInt(std))

\* PicnicBasketArbStrategy.act: the orders it leaves in self.orders, in the
\* order the replay walks them, and the flag it leaves in self.in_position
act(depths, pos, flag) ==
    IF \E i \in DOMAIN required : required[i] \notin DOMAIN depths
    THEN [orders |-> << >>, in_position |-> flag]
    ELSE LET z == BasketZ(depths)
             abs_z == IF RLess(z, RZero) THEN RSub(RZero, z) ELSE z
         IN  IF ~flag
             THEN IF RLess(z_entry, z)
                  THEN [orders |-> short_basket_long_components, in_position |-> TRUE]
                  ELSE IF RLess(z, RSub(RZero, z_entry))
                       THEN [orders |-> long_basket_short_components,
                             in_position |-> TRUE]
                       ELSE [orders |-> << >>, in_position |-> flag]
             ELSE IF RLess(abs_z, z_exit)
                  THEN [orders |-> exit_all(pos), in_position |-> FALSE]
                  ELSE [orders |-> << >>, in_position |-> flag]

\* a book of one level a side around a mid price, or of one side only
BookAt(bid, ask, vol) == OrderDepth(bid :> vol, ask :> -vol)

BidsOnly(bid, vol) == OrderDepth(bid :> vol, << >>)

\* the rows of a tick: components quoted around 10 (deep, thin, or with no
\* asks), the basket quoted around 110, 150 or 190, with no asks, or with
\* no row at all
ComponentBooks(deep) == {BookAt(9, 11, deep), BidsOnly(9, deep)}

BasketBooks ==
    {BookAt(109, 111, 1), BookAt(149, 151, 1), BookAt(189, 191, 1), BidsOnly(149, 1)}

BasketSnapshots ==
    {[CROISSANTS |-> c, JAMS |-> j, DJEMBES |-> d, PICNIC_BASKET1 |-> b] :
        c \in ComponentBooks(6) \cup {BookAt(9, 11, BasketThinVol)},
        j \in ComponentBooks(3), d \in ComponentBooks(1), b \in BasketBooks}
      \cup {[CROISSANTS |-> c, JAMS |-> j, DJEMBES |-> d] :
        c \in ComponentBooks(6), j \in ComponentBooks(3), d \in ComponentBooks(1)}

InitBasket ==
    /\ pc = "bk_loop"
    /\ timestamps = [i \in 1..BasketTicks |-> (i - 1) * 100]
    /\ ti = 0
    /\ order_depths = << >>
    /\ n_orders = 0
    /\ FreshLedger
    /\ m_order = NoOrder
    /\ m_result = NoResult
    /\ sim_result = NoResult
    /\ ExtraIdle

\* for t in timestamps: the books, last_prices, and strategy.act(state) on a
\* copy of the positions
BKStartTick ==
    /\ pc = "bk_loop"
    /\ ti < Len(timestamps)
    /\ ti' = ti + 1
    /\ \E snap \in BasketSnapshots :
          LET r == act(snap, position, in_position)
          IN  /\ order_depths' = snap
              /\ last_prices' = UpdateLastPrices(last_prices, snap)
              /\ orders' = r.orders
              /\ in_position' = r.in_position
    /\ m_order' = NoOrder
    /\ m_result' = NoResult
    /\ pc' = "bk_orders"
    /\ UNCHANGED << timestamps, n_orders, ledger, equity_curve_log, sim_result,
                    mm_result, state_position, built_depths, window,
                    cost_basis, trader_realized_pnl, price_history >>

\* one pass of the order loop over the strategy's orders
BKProcessOrder ==
    /\ pc = "bk_orders"
    /\ orders # << >>
    /\ LET order == Head(orders)
           f == match_order(order, order_depths[order.symbol])
       IN  /\ m_order' = order
           /\ m_result' = f
           /\ IF f.qty # 0
              THEN ApplyFill(timestamps[ti], order.symbol, f.qty, f.price)
              ELSE UNCHANGED ledger
           /\ order_depths' =
                 [order_depths EXCEPT ![order.symbol] = BookAfterMatch(order, @)]
    /\ orders' = Tail(orders)
    /\ UNCHANGED << pc, timestamps, ti, n_orders, last_prices, equity_curve_log,
                    sim_result, mm_result, state_position, built_depths,
                    in_position, window, cost_basis, trader_realized_pnl,
                    price_history >>

\* the mark-to-market and the snapshot that close the tick
BKEndTick ==
    /\ pc = "bk_orders"
    /\ orders = << >>
    /\ LET unrealized_pnl == Unrealized(position, position_cost, last_prices)
       IN  equity_curve_log' = Append(equity_curve_log,
              [timestamp |-> timestamps[ti],
               realized_pnl |-> realized_pnl,
               unrealized_pnl |-> unrealized_pnl,
               total_pnl |-> RAdd(realized_pnl, unrealized_pnl),
               positions |-> position])
    /\ pc' = "bk_loop"
    /\ UNCHANGED << timestamps, ti, order_depths, n_orders, ledger, last_prices,
                    m_order, m_result, sim_result >>
    /\ UNCHANGED extra

BKFinish ==
    /\ pc = "bk_loop"
    /\ ti = Len(timestamps)
    /\ pc' = "bk_done"
    /\ UNCHANGED << timestamps, ti, order_depths, n_orders, ledger, last_prices,
                    equity_curve_log, m_order, m_result, sim_result >>
    /\ UNCHANGED extra

NextBasket == BKStartTick \/ BKProcessOrder \/ BKEndTick \/ BKFinish

SpecBasket == InitBasket /\ [][NextBasket]_vars

\* ------------------------------------------- the market-making trader
\* MarketMaking.Trader (src/MarketMaking.py), one run per tick
window_size == 10

TraderProducts == {"RAINFOREST_RESIN", "KELP"}

\* position_limits
position_limits == [p \in {"RAINFOREST_RESIN", "KELP", "SQUID_INK"} |-> 50]

\* self.true_value: the static fair value of RAINFOREST_RESIN
true_value_static == 10000

\* round(n / 2): Python rounds a half to the even neighbour
RoundHalf(n) ==
    IF n % 2 = 0 THEN n \div 2
    ELSE IF ((n - 1) \div 2) % 2 = 0 THEN (n - 1) \div 2 ELSE (n + 1) \div 2

\* max(buy_orders, key=volume)[0] over the bids sorted from the highest
\* price: the first level of the largest volume
PopularBid(order_depth) ==
    SetMax({p \in DOMAIN order_depth.buy_orders :
              \A q \in DOMAIN order_depth.buy_orders :
                  order_depth.buy_orders[p] >= order_depth.buy_orders[q]})

\* min(sell_orders, key=volume)[0] over the asks sorted from the lowest
\* price: the first level of the most negative stored volume
PopularAsk(order_depth) ==
    SetMin({p \in DOMAIN order_depth.sell_orders :
              \A q \in DOMAIN order_depth.sell_orders :
                  order_depth.sell_orders[p] <= order_depth.sell_orders[q]})

\* Trader.get_fair_value
get_fair_value(product, order_depth) ==
    IF product = "RAINFOREST_RESIN" THEN true_value_static
    ELSE IF DOMAIN order_depth.buy_orders = {} \/ DOMAIN order_depth.sell_orders = {}
         THEN 0
         ELSE RoundHalf(PopularBid(order_depth) + PopularAsk(order_depth))

\* self.window[product].append(...) and the popleft beyond window_size
PushWindow(w, flag) ==
    LET a == Append(w, flag)
    IN  IF Len(a) > window_size THEN Tail(a) ELSE a

\* sum(self.window[product])
RECURSIVE CountTrue(_)
CountTrue(w) ==
    IF w = << >> THEN 0
    ELSE (IF Head(w) THEN 1 ELSE 0) + CountTrue(Tail(w))

\* the active buy loop: for price, volume in sell_orders
RECURSIVE ActiveBuy(_, _, _, _, _, _, _)
ActiveBuy(product, levels, order_depth, i, to_buy, max_buy_price, acc) ==
    IF i > Len(levels) THEN [left |-> to_buy, orders |-> acc]
    ELSE LET price == levels[i]
             volume == order_depth.sell_orders[price]
         IN  IF to_buy > 0 /\ price <= max_buy_price
             THEN LET quantity == MinI(to_buy, -volume)
                  IN  ActiveBuy(product, levels, order_depth, i + 1,
                                to_buy - quantity, max_buy_price,
                                Append(acc, Order(product, price, quantity)))
             ELSE ActiveBuy(product, levels, order_depth, i + 1, to_buy,
                            max_buy_price, acc)

\* the active sell loop: for price, volume in buy_orders
RECURSIVE ActiveSell(_, _, _, _, _, _, _)
ActiveSell(product, levels, order_depth, i, to_sell, min_sell_price, acc) ==
    IF i > Len(levels) THEN [left |-> to_sell, orders |-> acc]
    ELSE LET price == levels[i]
             volume == order_depth.buy_orders[price]
         IN  IF to_sell > 0 /\ price >= min_sell_price
             THEN LET quantity == MinI(to_sell, volume)
                  IN  ActiveSell(product, levels, order_depth, i + 1,
                                 to_sell - quantity, min_sell_price,
                                 Append(acc, Order(product, price, -quantity)))
             ELSE ActiveSell(product, levels, order_depth, i + 1, to_sell,
                             min_sell_price, acc)

\* one rebalancing buy: Order(product, price, to_buy // 2); to_buy -= to_buy // 2
RebalanceBuy(product, price, cond, r) ==
    IF r.left > 0 /\ cond
    THEN [left |-> r.left - (r.left \div 2),
          orders |-> Append(r.orders, Order(product, price, r.left \div 2))]
    ELSE r

\* one rebalancing sell: Order(product, price, -to_sell // 2), where the
\* minus sign binds before the floor division; to_sell -= to_sell // 2
RebalanceSell(product, price, cond, r) ==
    IF r.left > 0 /\ cond
    THEN [left |-> r.left - (r.left \div 2),
          orders |-> Append(r.orders, Order(product, price, (-r.left) \div 2))]
    ELSE r

\* the body of Trader.run for one product: the orders it emits and the
\* window it leaves
TraderRun(product, order_depth, pos, w) ==
    LET limit == position_limits[product]
        to_buy == limit - pos
        to_sell == limit + pos
        true_value == get_fair_value(product, order_depth)
        buy_levels == SortedDesc(DOMAIN order_depth.buy_orders)
        sell_levels == SortedAsc(DOMAIN order_depth.sell_orders)
        w1 == PushWindow(w, Abs(pos) = limit)
        emergency_rebalance ==
            Len(w1) = window_size /\ \A i \in DOMAIN w1 : w1[i]
        risk_off_rebalance ==
            /\ Len(w1) = window_size
            /\ 2 * CountTrue(w1) >= window_size
            /\ w1[Len(w1)]
        max_buy_price == IF 2 * pos > limit THEN true_value - 1 ELSE true_value
        min_sell_price == IF 2 * pos < -limit THEN true_value + 1 ELSE true_value
        b0 == ActiveBuy(product, sell_levels, order_depth, 1, to_buy,
                        max_buy_price, << >>)
        b1 == RebalanceBuy(product, true_value, emergency_rebalance, b0)
        b2 == RebalanceBuy(product, true_value - 2, risk_off_rebalance, b1)
        b3 == IF b2.left > 0 /\ buy_levels # << >>
              THEN [left |-> b2.left,
                    orders |-> Append(b2.orders,
                        Order(product,
                              MinI(max_buy_price, PopularBid(order_depth) + 1),
                              b2.left))]
              ELSE b2
        s0 == ActiveSell(product, buy_levels, order_depth, 1, to_sell,
                         min_sell_price, b3.orders)
        s1 == RebalanceSell(product, true_value, emergency_rebalance, s0)
        s2 == RebalanceSell(product, true_value + 2, risk_off_rebalance, s1)
        s3 == IF s2.left > 0 /\ sell_levels # << >>
              THEN Append(s2.orders,
                       Order(product,
                             -MinI(-min_sell_price, -(PopularAsk(order_depth) - 1)),
                             -s2.left))
              ELSE s2.orders
    IN  [orders |-> s3, window |-> w1]

\* the books the trader is shown: levels at 10000 and one tick above
TraderPrices == {10000, 10001}

TraderLadders ==
    UNION {[L -> 1..TraderMaxVol] : L \in SUBSET TraderPrices}

TraderBooks ==
    {OrderDepth(b, [p \in DOMAIN a |-> -a[p]]) :
        <<b, a>> \in {x \in TraderLadders \X TraderLadders :
                        \A pb \in DOMAIN x[1], pa \in DOMAIN x[2] : pb < pa}}

\* the positions the replay hands over: at either limit, and inside them on
\* either side of half the limit
TraderPositions == {-50, -26, 26, 50}

InitTrader ==
    /\ pc = "trader"
    /\ timestamps = << 0 >>
    /\ ti = 1
    /\ order_depths = << >>
    /\ n_orders = 0
    /\ FreshLedger
    /\ m_order = NoOrder
    /\ m_result = NoResult
    /\ sim_result = NoResult
    /\ ExtraIdle

\* trader.run(state) on the snapshot of one tick; a price file lists the
\* same product on every tick
TraderTick ==
    /\ pc = "trader"
    /\ \E product \in TraderProducts, book \in TraderBooks, pos \in TraderPositions :
          /\ window = << >> \/ product \in DOMAIN window
          /\ LET w == IF product \in DOMAIN window THEN window[product] ELSE << >>
                 r == TraderRun(product, book, pos, w)
             IN  /\ window' = [p \in {product} |-> r.window]
                 /\ orders' = r.orders
          /\ built_depths' = [p \in {product} |-> book]
          /\ state_position' = [p \in {product} |-> pos]
    /\ UNCHANGED << pc, timestamps, ti, order_depths, n_orders, ledger,
                    last_prices, equity_curve_log, m_order, m_result,
                    sim_result, mm_result, in_position, cost_basis,
                    trader_realized_pnl, price_history >>

NextTrader == TraderTick

SpecTrader == InitTrader /\ [][NextTrader]_vars

\* ------------------------------------------------- the ledger on its own
\* the fills the ledger is driven with directly: what match_order returns for
\* a one-level book of that price and a large enough volume
FillQtys == {-8, -5, -3, -2, 2, 3, 5, 8}

FillPrices == {100, 110}

\* the instrument whose fills they are (the ledger keeps one entry per
\* product and a fill touches only its own)
LedgerProducts == {"PICNIC_BASKET1"}

InitLedger ==
    /\ pc = "ledger"
    /\ timestamps = << 0 >>
    /\ ti = 1
    /\ order_depths = << >>
    /\ n_orders = 0
    /\ FreshLedger
    /\ m_order = NoOrder
    /\ m_result = NoResult
    /\ sim_result = NoResult
    /\ ExtraIdle

\* the order loop's body from "if executed_qty != 0" on, for a given fill
LedgerFill ==
    /\ pc = "ledger"
    /\ n_orders < MaxFills
    /\ \E product \in LedgerProducts, q \in FillQtys, pr \in FillPrices :
          ApplyFill(timestamps[ti], product, q, RInt(pr))
    /\ n_orders' = n_orders + 1
    /\ UNCHANGED << pc, timestamps, ti, order_depths, last_prices,
                    equity_curve_log, m_order, m_result, sim_result >>
    /\ UNCHANGED extra

NextLedger == LedgerFill

SpecLedger == InitLedger /\ [][NextLedger]_vars

\* ------------------------------------- the market-making replay's ledger
\* MarketMaking/simulate.py lines 104-111 with the Trader of
\* MarketMaking/MarketMaking.py; cost_basis there is an average price
MMProducts == {"KELP"}

\* Trader.update_cost_basis_and_pnl(product, price, qty, pos) applied to the
\* product's entries cb and rp (0.0 and 0.0 when the product is new)
update_cost_basis_and_pnl(cb, rp, price, qty, pos) ==
    IF qty = 0 THEN [cost_basis |-> cb, realized_pnl |-> rp]
    ELSE LET old_pos == pos - qty
         IN  IF old_pos = 0
             THEN [cost_basis |-> price, realized_pnl |-> rp]
             ELSE IF (old_pos > 0 /\ qty > 0) \/ (old_pos < 0 /\ qty < 0)
             THEN LET total_cost == RAdd(RMul(cb, RInt(Abs(old_pos))),
                                         RMul(price, RInt(Abs(qty))))
                  IN  [cost_basis |-> RDiv(total_cost, RInt(Abs(pos))),
                       realized_pnl |-> rp]
             ELSE LET realized == RMul(RInt(qty), RSub(price, cb))
                  IN  [cost_basis |-> IF pos = 0 THEN RZero ELSE cb,
                       realized_pnl |-> RAdd(rp, realized)]

InitMMLedger ==
    /\ pc = "mm_ledger"
    /\ timestamps = << 0 >>
    /\ ti = 1
    /\ order_depths = << >>
    /\ n_orders = 0
    /\ position = [p \in MMProducts |-> 0]
    /\ position_cost = << >>
    /\ realized_pnl = RZero
    /\ last_prices = << >>
    /\ order_log = << >>
    /\ equity_curve_log = << >>
    /\ m_order = NoOrder
    /\ m_result = NoResult
    /\ sim_result = NoResult
    /\ ExtraIdle

\* the body of "if executed_qty != 0" for a given fill
MMLedgerFill ==
    /\ pc = "mm_ledger"
    /\ n_orders < MaxFills
    /\ \E product \in MMProducts, q \in FillQtys, pr \in FillPrices :
          LET new_pos == position[product] + q
              known == product \in DOMAIN cost_basis
              r == update_cost_basis_and_pnl(
                       IF known THEN cost_basis[product] ELSE RZero,
                       IF known THEN trader_realized_pnl[product] ELSE RZero,
                       RInt(pr), q, new_pos)
          IN  /\ position' = [position EXCEPT ![product] = new_pos]
              /\ cost_basis' = (product :> r.cost_basis) @@ cost_basis
              /\ trader_realized_pnl' = (product :> r.realized_pnl) @@ trader_realized_pnl
              /\ order_log' = Append(order_log,
                    [timestamp |-> timestamps[ti], product |-> product,
                     price |-> RInt(pr), quantity |-> q])
    /\ n_orders' = n_orders + 1
    /\ UNCHANGED << pc, timestamps, ti, order_depths, position_cost, realized_pnl,
                    last_prices, equity_curve_log, m_order, m_result, sim_result,
                    mm_result, state_position, built_depths, orders, in_position,
                    window, price_history >>

NextMMLedger == MMLedgerFill

SpecMMLedger == InitMMLedger /\ [][NextMMLedger]_vars

\* ================================================================ claims
Sign(x) == IF x > 0 THEN 1 ELSE IF x < 0 THEN -1 ELSE 0

RECURSIVE SumOver(_, _)
SumOver(S, f) ==
    IF S = {} THEN 0
    ELSE LET x == CHOOSE y \in S : TRUE IN f[x] + SumOver(S \ {x}, f)

\* the book the latest match was made against
m_depth == order_depths[m_order.symbol]

Asks(depth) == DOMAIN depth.sell_orders

Bids(depth) == DOMAIN depth.buy_orders

\* quantity resting at an ask / bid level
AskVol(depth) == [p \in Asks(depth) |-> -depth.sell_orders[p]]

BidVol(depth) == [p \in Bids(depth) |-> depth.buy_orders[p]]

\* the levels an order may trade with, as the design states them: a market
\* order (price 0) the single best opposing level, a limit order the opposing
\* levels at or better than its limit
QualAsks(order, depth) ==
    IF order.price = 0
    THEN {p \in Asks(depth) : \A q \in Asks(depth) : p <= q}
    ELSE {p \in Asks(depth) : p <= order.price}

QualBids(order, depth) ==
    IF order.price = 0
    THEN {p \in Bids(depth) : \A q \in Bids(depth) : p >= q}
    ELSE {p \in Bids(depth) : p >= order.price}

QualVolume(order, depth) ==
    IF order.quantity > 0 THEN SumOver(QualAsks(order, depth), AskVol(depth))
    ELSE SumOver(QualBids(order, depth), BidVol(depth))

\* simulate.py has no market orders: the price test alone qualifies a level
SimQualVolume(order, depth) ==
    IF order.quantity > 0
    THEN SumOver({p \in Asks(depth) : p <= order.price}, AskVol(depth))
    ELSE SumOver({p \in Bids(depth) : p >= order.price}, BidVol(depth))

CappedFill(f, order, volume) ==
    /\ Abs(f.qty) <= volume
    /\ Abs(f.qty) <= Abs(order.quantity)
    /\ f.qty # 0 => Sign(f.qty) = Sign(order.quantity)

\* C2: depth cap.  Whatever the order and the book, the fill of either
\* match_order is no larger than the quantity resting at the qualifying
\* levels of the opposing ladder, no larger than the quantity asked for, and
\* a fill that is not zero has the sign of the order.
C2_DepthCap ==
    /\ m_result.called => CappedFill(m_result, m_order, QualVolume(m_order, m_depth))
    /\ sim_result.called => CappedFill(sim_result, m_order, SimQualVolume(m_order, m_depth))

\* C2 witness: a buy asked for more than the qualifying asks hold and got
\* exactly what they hold
C2_Witness ==
    /\ m_result.called /\ sim_result.called
    /\ m_order.quantity > 0 /\ m_order.price # 0
    /\ m_result.qty > 0
    /\ m_result.qty = QualVolume(m_order, m_depth)
    /\ sim_result.qty = m_result.qty
    /\ m_result.qty < m_order.quantity

\* quantity the fill took at price p
TakenAt(f, p) ==
    SumOver({i \in DOMAIN f.taken : f.taken[i][1] = p}, [i \in DOMAIN f.taken |-> f.taken[i][2]])

TakenPrices(f) == {f.taken[i][1] : i \in DOMAIN f.taken}

\* C3: market-order single-level cap.  A market order (price 0), buy or
\* sell, takes quantity from the best opposing level only, so its fill is at
\* most what that level holds; nothing is taken from a deeper level.
C3_MarketSingleLevel ==
    (m_result.called /\ m_order.price = 0) =>
        IF m_order.quantity > 0
        THEN /\ TakenPrices(m_result) \subseteq QualAsks(m_order, m_depth)
             /\ m_result.qty <= SumOver(QualAsks(m_order, m_depth), AskVol(m_depth))
             /\ m_result.qty >= 0
        ELSE /\ TakenPrices(m_result) \subseteq QualBids(m_order, m_depth)
             /\ -m_result.qty <= SumOver(QualBids(m_order, m_depth), BidVol(m_depth))
             /\ m_result.qty <= 0

\* C3 witness: a market buy larger than the best ask level, with a deeper
\* ask level in the book, filled with the best level's quantity only
C3_Witness ==
    /\ m_result.called /\ m_order.price = 0 /\ m_order.quantity > 0
    /\ Cardinality(Asks(m_depth)) >= 2
    /\ m_result.qty = AskVol(m_depth)[SetMin(Asks(m_depth))]
    /\ m_result.qty < m_order.quantity

\* C4: price qualification.  Every level a limit buy takes quantity from is
\* priced at or below its limit, every level a limit sell takes quantity
\* from at or above its limit.
C4_PriceQualification ==
    (m_result.called /\ m_order.price # 0) =>
        \A i \in DOMAIN m_result.taken :
            /\ m_result.taken[i][2] > 0
            /\ IF m_order.quantity > 0
               THEN /\ m_result.taken[i][1] \in Asks(m_depth)
                    /\ m_result.taken[i][1] <= m_order.price
               ELSE /\ m_result.taken[i][1] \in Bids(m_depth)
                    /\ m_result.taken[i][1] >= m_order.price

\* C4 witness: a limit sell left partly unfilled although a bid below its
\* limit was resting in the book
C4_Witness ==
    /\ m_result.called /\ m_order.price # 0 /\ m_order.quantity < 0
    /\ m_result.qty < 0
    /\ -m_result.qty < -m_order.quantity
    /\ \E p \in Bids(m_depth) : p < m_order.price

\* C10: price priority.  A limit buy visits the qualifying asks in ascending
\* price order, a limit sell the qualifying bids in descending order; a level
\* is touched only when every better qualifying level has been emptied, and
\* the loop stops when the order is filled or the qualifying levels are used up.
C10_PricePriority ==
    (m_result.called /\ m_order.price # 0 /\ m_order.quantity # 0) =>
        LET buy == m_order.quantity > 0
            Q == IF buy THEN QualAsks(m_order, m_depth) ELSE QualBids(m_order, m_depth)
            vol == IF buy THEN AskVol(m_depth) ELSE BidVol(m_depth)
            Better(a, b) == IF buy THEN a < b ELSE a > b
            tk == m_result.taken
        IN  /\ \A i, j \in DOMAIN tk : i < j => Better(tk[i][1], tk[j][1])
            /\ TakenPrices(m_result) \subseteq Q
            /\ \A p \in TakenPrices(m_result) :
                  \A q \in Q : Better(q, p) => TakenAt(m_result, q) = vol[q]
            /\ \/ Abs(m_result.qty) = Abs(m_order.quantity)
               \/ \A q \in Q : TakenAt(m_result, q) = vol[q]
            /\ Abs(m_result.qty) <= Abs(m_order.quantity)

\* C10 witness: a limit buy that emptied the best ask, took part of the next
\* one and left a third qualifying ask untouched
C10_Witness ==
    /\ m_result.called /\ m_order.price # 0 /\ m_order.quantity > 0
    /\ Len(m_result.taken) = 2
    /\ m_result.taken[2][2] < AskVol(m_depth)[m_result.taken[2][1]]
    /\ \E q \in QualAsks(m_order, m_depth) : q > m_result.taken[2][1]

\* what the levels a fill consumed cost: the sum of price x quantity taken
TakenValue(f) ==
    SumOver(DOMAIN f.taken, [i \in DOMAIN f.taken |-> f.taken[i][1] * f.taken[i][2]])

TakenQty(f) ==
    SumOver(DOMAIN f.taken, [i \in DOMAIN f.taken |-> f.taken[i][2]])

\* the price of a fill is the volume-weighted average of what it consumed
VWAPFill(f) ==
    IF f.qty # 0
    THEN /\ TakenQty(f) = Abs(f.qty)
         /\ RMul(f.price, RInt(Abs(f.qty))) = RInt(TakenValue(f))
    ELSE /\ f.price = RZero
         /\ f.taken = << >>

\* C11: execution price.  Whenever either match_order returns a fill that
\* is not zero, the returned price times the filled magnitude equals the sum
\* over the consumed levels of level price x quantity taken there, and the
\* quantities taken add up to the fill; a fill of 0 has price 0.
C11_ExecutionPrice ==
    /\ m_result.called => VWAPFill(m_result)
    /\ sim_result.called => VWAPFill(sim_result)

\* C11 witness: a fill over two levels whose average price is not a whole
\* number
C11_Witness ==
    /\ m_result.called /\ sim_result.called
    /\ Len(m_result.taken) = 2
    /\ m_result.price.d # 1
    /\ sim_result.price = m_result.price

\* C12: the worked example.  Against bids {99: 10, 98: 5} and asks
\* {101: 4, 103: 6}, basket_simulator.match_order fills a market buy of 10
\* with 4 at 101 (6 left unfilled), and a limit buy of 10 at 103 with 10, at
\* a total cost of 4 x 101 + 6 x 103 = 1022, an execution price of 102.2.
C12_Scenario ==
    (m_result.called /\ m_depth = ScenarioBook) =>
        /\ m_order = ScenarioMarketBuy =>
              /\ m_result.qty = 4
              /\ m_result.price = RInt(101)
              /\ m_result.taken = << << 101, 4 >> >>
              /\ m_order.quantity - m_result.qty = 6
        /\ m_order = ScenarioLimitBuy =>
              /\ m_result.qty = 10
              /\ m_result.taken = << << 101, 4 >>, << 103, 6 >> >>
              /\ TakenValue(m_result) = 1022
              /\ m_result.price = Norm(1022, 10)
              /\ m_result.price = Norm(511, 5)

\* C12 witness: the example's limit buy matched, filled in full over both asks
C12_Witness ==
    /\ m_result.called
    /\ m_depth = ScenarioBook
    /\ m_order = ScenarioLimitBuy
    /\ m_result.qty = 10
    /\ Len(m_result.taken) = 2

\* ---------------------------------------------------------- ledger claims
RECURSIVE RSum(_, _)
RSum(S, f) ==
    IF S = {} THEN RZero
    ELSE LET x == CHOOSE y \in S : TRUE IN RAdd(f[x], RSum(S \ {x}, f))

LastFill == order_log[Len(order_log)]

LastSnap == equity_curve_log[Len(equity_curve_log)]

\* C1: cost-basis invariant.  In every state of the replay, for every
\* instrument, a position of zero has a cost basis of zero.
C1_CostBasisInvariant ==
    \A p \in Products : position[p] = 0 => position_cost[p] = RZero

\* C1 witness: an instrument that was opened at one price and then closed to
\* exactly zero at another
C1_Witness ==
    /\ Len(order_log) >= 2
    /\ position[LastFill.product] = 0
    /\ order_log[Len(order_log) - 1].product = LastFill.product
    /\ order_log[Len(order_log) - 1].price # LastFill.price

\* C5: flip correctness.  A fill that opposes the position and is larger
\* than it realises |old| x (price - average entry) x sign(old), leaves
\* old + qty, of the opposite sign, and a cost basis of new position x price;
\* +5 at 100 followed by -8 at 110 realises 50 and leaves -3 with basis -330.
C5_FlipCorrectness ==
    [][\A p \in Products :
          LET old == position[p]
              q == position'[p] - old
              e == order_log'[Len(order_log')]
          IN  (old # 0 /\ q # 0 /\ Sign(q) # Sign(old) /\ Abs(q) > Abs(old)) =>
                 /\ Len(order_log') = Len(order_log) + 1
                 /\ e.product = p /\ e.quantity = q
                 /\ realized_pnl' =
                       RAdd(realized_pnl,
                            RMul(RInt(Abs(old) * Sign(old)),
                                 RSub(e.price, RDiv(position_cost[p], RInt(old)))))
                 /\ Sign(position'[p]) = -Sign(old)
                 /\ position_cost'[p] = RMul(RInt(position'[p]), e.price)
                 /\ (old = 5 /\ position_cost[p] = RInt(500) /\ q = -8
                        /\ e.price = RInt(110)) =>
                       /\ realized_pnl' = RAdd(realized_pnl, RInt(50))
                       /\ position'[p] = -3
                       /\ position_cost'[p] = RInt(-330)
      ]_vars

\* C5 witness: the ledger after +5 at 100 and then -8 at 110
C5_Witness ==
    /\ Len(order_log) = 2
    /\ order_log[1].product = order_log[2].product
    /\ order_log[1].quantity = 5 /\ order_log[1].price = RInt(100)
    /\ order_log[2].quantity = -8 /\ order_log[2].price = RInt(110)
    /\ order_log[2].trade_pnl = RInt(50)
    /\ realized_pnl = RInt(50)
    /\ position[order_log[2].product] = -3
    /\ position_cost[order_log[2].product] = RInt(-330)

\* the ways to cut n into at most k fills, in order: leading fills of the
\* sizes the ledger is driven with and a last fill of what remains; the
\* single fill of n is always one of them
RECURSIVE Splits(_, _)
Splits(n, k) ==
    IF k <= 1 THEN {<< n >>}
    ELSE {<< n >>} \cup
         UNION {{<< a >> \o s : s \in Splits(n - a, k - 1)} :
                   a \in {Abs(q) : q \in FillQtys} \cap 1..(n - 1)}

\* largest position the directly driven ledger can hold
MaxLedgerPos == MaxFills * Abs(SetMax(FillQtys))

\* the splits of every position the ledger can hold
SplitTable == [n \in 1..MaxLedgerPos |-> Splits(n, MaxSplit)]

\* the ledger run over the fills qs, all at one price, from (pos, cost)
RECURSIVE CloseRun(_, _, _, _, _)
CloseRun(pos, cost, pnl, qs, price) ==
    IF qs = << >> THEN [pos |-> pos, cost |-> cost, pnl |-> pnl]
    ELSE CloseRun(pos + Head(qs),
                  NewCost(pos, cost, Head(qs), price),
                  RAdd(pnl, TradePnl(pos, cost, Head(qs), price)),
                  Tail(qs), price)

\* C6: PnL conservation under splitting.  From any position the ledger
\* holds, closing it to zero at a price p in one fill or in any sequence of
\* smaller offsetting fills at p realises the same total,
\* (p - average entry) x closed quantity x sign(position), and ends with
\* position 0 and cost basis 0.
C6_SplitConservation ==
    \A p \in LedgerProducts :
        position[p] # 0 =>
            \A pr \in FillPrices :
                \A s \in SplitTable[Abs(position[p])] :
                    LET qs == [i \in DOMAIN s |-> -Sign(position[p]) * s[i]]
                        r == CloseRun(position[p], position_cost[p], RZero, qs, RInt(pr))
                    IN  /\ r.pos = 0
                        /\ r.cost = RZero
                        /\ r.pnl = RMul(RInt(position[p]),
                                        RSub(RInt(pr), RDiv(position_cost[p],
                                                            RInt(position[p]))))

\* C6 witness: a position opened by one fill and closed to zero by two
\* smaller fills at one price, with the total the one-fill close would give
C6_Witness ==
    /\ Len(order_log) = 3
    /\ order_log[1].product = order_log[2].product
    /\ order_log[2].product = order_log[3].product
    /\ order_log[2].price = order_log[3].price
    /\ order_log[2].price # order_log[1].price
    /\ Sign(order_log[2].quantity) = Sign(order_log[3].quantity)
    /\ Sign(order_log[2].quantity) # Sign(order_log[1].quantity)
    /\ position[order_log[1].product] = 0
    /\ position_cost[order_log[1].product] = RZero
    /\ realized_pnl = RMul(RInt(order_log[1].quantity),
                           RSub(order_log[2].price, order_log[1].price))

\* C14: realized PnL frame condition.  A fill that opens a position from
\* zero, or adds to a position in its own direction, leaves realized PnL as
\* it was and is logged with trade_pnl 0; realized PnL differs after a step
\* only if the step applied a fill of the sign opposite to the position held.
C14_RealizedFrame ==
    [][/\ \A p \in Products :
             LET old == position[p]
                 q == position'[p] - old
             IN  (q # 0 /\ (old = 0 \/ Sign(q) = Sign(old))) =>
                    /\ realized_pnl' = realized_pnl
                    /\ Len(order_log') = Len(order_log) + 1
                    /\ order_log'[Len(order_log')].trade_pnl = RZero
       /\ realized_pnl' # realized_pnl =>
             \E p \in Products :
                 /\ position[p] # 0
                 /\ position'[p] # position[p]
                 /\ Sign(position'[p] - position[p]) = -Sign(position[p])
      ]_vars

\* C14 witness: a position opened, partly closed at another price with a
\* PnL that is not zero, then added to at a price away from its average
\* entry, with realized PnL still what the partial close made it
C14_Witness ==
    /\ Len(order_log) = 3
    /\ order_log[1].product = order_log[2].product
    /\ order_log[2].product = order_log[3].product
    /\ Sign(order_log[2].quantity) = -Sign(order_log[1].quantity)
    /\ Abs(order_log[2].quantity) < Abs(order_log[1].quantity)
    /\ Sign(order_log[3].quantity) = Sign(order_log[1].quantity)
    /\ order_log[3].price # order_log[1].price
    /\ order_log[2].trade_pnl # RZero
    /\ order_log[3].trade_pnl = RZero
    /\ realized_pnl = order_log[2].trade_pnl

\* C15: partial or exact reduction.  A fill opposite to the position held
\* and no larger than it adds |qty| x (price - average entry) x sign(old) to
\* realized PnL and makes the cost basis old basis x new / old position: the
\* average entry of what remains is the one before, and the basis is 0 when
\* nothing remains.
C15_Reduction ==
    [][\A p \in Products :
          LET old == position[p]
              new == position'[p]
              q == new - old
              e == order_log'[Len(order_log')]
              avg_entry == RDiv(position_cost[p], RInt(old))
          IN  (old # 0 /\ q # 0 /\ Sign(q) = -Sign(old) /\ Abs(q) <= Abs(old)) =>
                 /\ Len(order_log') = Len(order_log) + 1
                 /\ e.product = p /\ e.quantity = q
                 /\ realized_pnl' =
                       RAdd(realized_pnl,
                            RMul(RInt(Abs(q) * Sign(old)), RSub(e.price, avg_entry)))
                 /\ position_cost'[p] = RMul(position_cost[p], Norm(new, old))
                 /\ new # 0 => RDiv(position_cost'[p], RInt(new)) = avg_entry
                 /\ new = 0 => position_cost'[p] = RZero
      ]_vars

\* C15 witness: a long of 5 cut to 3 at a price above its entry
C15_Witness ==
    /\ Len(order_log) = 2
    /\ order_log[1].product = order_log[2].product
    /\ order_log[1].quantity = 5 /\ order_log[1].price = RInt(100)
    /\ order_log[2].quantity = -2 /\ order_log[2].price = RInt(110)
    /\ order_log[2].trade_pnl = RInt(20)
    /\ position[order_log[1].product] = 3
    /\ position_cost[order_log[1].product] = RInt(300)

\* ---------------------------------------------------------- replay claims
\* (mark - average entry) x position
SignedMark(pos, cost, mark) ==
    RMul(RSub(mark, RDiv(cost, RInt(pos))), RInt(pos))

\* a tick has just been closed: its snapshot is the last of the log and
\* order_depths still holds its books
TickMarked == pc \in {"loop", "done"} /\ Len(equity_curve_log) >= 1

HasMid(p) == p \in DOMAIN order_depths /\ TwoSided(order_depths[p])

C13_BookUnchanged ==
    [][/\ ~(pc = "loop" /\ pc' = "orders") => order_depths' = order_depths
       /\ (pc = "orders" /\ n_orders' = n_orders + 1 /\ m_result'.called) =>
             /\ m_result' = match_order(m_order', order_depths[m_order'.symbol])
             /\ (m_result.called /\ m_order' = m_order) => m_result' = m_result
      ]_vars

\* C13 witness: the same order matched twice in one tick, both times filled
\* with all the level holds
C13_Witness ==
    /\ pc = "orders"
    /\ Len(order_log) >= 2
    /\ LastFill.timestamp = order_log[Len(order_log) - 1].timestamp
    /\ LastFill.product = order_log[Len(order_log) - 1].product
    /\ LastFill.quantity = order_log[Len(order_log) - 1].quantity
    /\ LastFill.price = order_log[Len(order_log) - 1].price
    /\ m_result.called /\ m_result.qty = LastFill.quantity
    /\ Abs(LastFill.quantity) = ReplayMaxVol

\* the quantities of the fills logged for instrument p, added up
FillSum(p) ==
    SumOver({i \in DOMAIN order_log : order_log[i].product = p},
            [i \in DOMAIN order_log |-> order_log[i].quantity])

\* C16: position is the sum of fills.  Positions start at zero; in every
\* state, and so at the end of every tick, the position of every instrument
\* is the sum of the quantities logged for it so far, and the tick's snapshot
\* records that position; a step changes a position only together with
\* appending one fill-log entry for that instrument, by that entry's
\* quantity, and no step of a run sets a position back.
C16_PositionIsSumOfFills ==
    /\ [](\A p \in Products : position[p] = FillSum(p))
    /\ [](TickMarked => LastSnap.positions = [p \in Products |-> FillSum(p)])
    /\ [][\A p \in Products :
             position'[p] # position[p] =>
                 /\ Len(order_log') = Len(order_log) + 1
                 /\ order_log'[Len(order_log')].product = p
                 /\ position'[p] = position[p] + order_log'[Len(order_log')].quantity
                 /\ \A i \in DOMAIN order_log : order_log'[i] = order_log[i]
         ]_vars

\* C16 witness: the second tick closed with an instrument whose position was
\* built by a fill in each tick and is neither of the two fills
C16_Witness ==
    /\ TickMarked
    /\ Len(equity_curve_log) = 2
    /\ Len(order_log) = 2
    /\ order_log[1].timestamp # order_log[2].timestamp
    /\ order_log[1].product = order_log[2].product
    /\ order_log[1].quantity # -order_log[2].quantity
    /\ position[order_log[1].product] = order_log[1].quantity + order_log[2].quantity
    /\ LastSnap.positions = position

\* C17: equity consistency.  In every snapshot total_pnl is realized_pnl +
\* unrealized_pnl; the snapshot a tick appends carries the ledger's realized
\* PnL and an unrealized PnL equal to the sum, over the instruments held and
\* priced, of (mark price - cost basis / position) x position; the long and
\* the short branch of the mark both equal that signed formula.
C17_EquityConsistency ==
    /\ [](\A i \in DOMAIN equity_curve_log :
             equity_curve_log[i].total_pnl =
                 RAdd(equity_curve_log[i].realized_pnl,
                      equity_curve_log[i].unrealized_pnl))
    /\ [](\A p \in Products :
             (position[p] # 0 /\ p \in DOMAIN last_prices) =>
                 MarkTerm(position[p], position_cost[p], last_prices[p]) =
                     SignedMark(position[p], position_cost[p], last_prices[p]))
    /\ [][Len(equity_curve_log') = Len(equity_curve_log) + 1 =>
             LET s == equity_curve_log'[Len(equity_curve_log')]
             IN  /\ s.realized_pnl = realized_pnl
                 /\ s.positions = position
                 /\ s.unrealized_pnl =
                       RSum({p \in Products : position[p] # 0 /\ p \in DOMAIN last_prices},
                            [p \in Products |->
                                IF position[p] # 0 /\ p \in DOMAIN last_prices
                                THEN RMul(RSub(last_prices[p],
                                               RDiv(position_cost[p], RInt(position[p]))),
                                          RInt(position[p]))
                                ELSE RZero])
                 /\ s.total_pnl = RAdd(realized_pnl, s.unrealized_pnl)
         ]_vars

\* C17 witness: a tick closed with a short position marked away from its
\* entry and a realized PnL that is not zero
C17_Witness ==
    /\ TickMarked
    /\ \E p \in Products : position[p] < 0 /\ p \in DOMAIN last_prices
    /\ LastSnap.realized_pnl # RZero
    /\ LastSnap.unrealized_pnl # RZero
    /\ LastSnap.total_pnl = RAdd(LastSnap.realized_pnl, LastSnap.unrealized_pnl)
    /\ LastSnap.total_pnl # LastSnap.realized_pnl

\* every number the run has computed so far
Computed ==
    {realized_pnl, m_result.price}
        \cup {position_cost[p] : p \in Products}
        \cup {last_prices[p] : p \in DOMAIN last_prices}
        \cup {order_log[i].price : i \in DOMAIN order_log}
        \cup {order_log[i].trade_pnl : i \in DOMAIN order_log}
        \cup {equity_curve_log[i].realized_pnl : i \in DOMAIN equity_curve_log}
        \cup {equity_curve_log[i].unrealized_pnl : i \in DOMAIN equity_curve_log}
        \cup {equity_curve_log[i].total_pnl : i \in DOMAIN equity_curve_log}

\* C18: no division by zero is reachable in the basket replay.  No number
\* the replay computes - execution price, trade PnL, cost basis, realized
\* and unrealized PnL - comes out of a division by zero: the average entry
\* is taken only of a position that is not zero, the cost basis is scaled
\* only by a position that is not zero, and match_order divides only by a
\* positive executed quantity.
C18_NoDivisionByZero ==
    \A x \in Computed : x.d # 0

\* C18 witness: a tick closed after an instrument with a mid-price was
\* opened and closed to exactly zero, the last order of the tick unfilled
C18_Witness ==
    /\ TickMarked
    /\ m_result.called /\ m_result.qty = 0 /\ m_result.price = RZero
    /\ \E p \in Products :
          /\ position[p] = 0
          /\ p \in DOMAIN last_prices
          /\ \E i \in DOMAIN order_log : order_log[i].product = p

\* C19: tick ordering.  The timestamps the loop runs over are strictly
\* ascending, so each occurs once; the loop takes them one at a time in that
\* order; every tick that runs to its end appends one snapshot, so the i-th
\* snapshot carries the i-th timestamp, the snapshots are as many as the
\* ticks completed, and a snapshot once appended stays as it is.
C19_TickOrdering ==
    /\ [](\A i, j \in DOMAIN timestamps : i < j => timestamps[i] < timestamps[j])
    /\ [](/\ ti \in 0..Len(timestamps)
          /\ Len(equity_curve_log) = IF pc \in {"orders", "aborted"} THEN ti - 1 ELSE ti
          /\ \A i \in DOMAIN equity_curve_log :
                equity_curve_log[i].timestamp = timestamps[i])
    /\ [][/\ timestamps' = timestamps
          /\ ti' \in {ti, ti + 1}
          /\ Len(equity_curve_log') \in {Len(equity_curve_log), Len(equity_curve_log) + 1}
          /\ \A i \in DOMAIN equity_curve_log :
                equity_curve_log'[i] = equity_curve_log[i]
         ]_vars

\* C19 witness: a run of two ticks finished, the position changed in the
\* second tick and the first snapshot still showing the position it recorded
C19_Witness ==
    /\ pc = "done"
    /\ Len(timestamps) = 2
    /\ Len(equity_curve_log) = 2
    /\ equity_curve_log[1].timestamp < equity_curve_log[2].timestamp
    /\ equity_curve_log[1].positions # equity_curve_log[2].positions
    /\ \E p \in Products : equity_curve_log[1].positions[p] # 0

C21_StrategyCannotWritePositions ==
    [][pc = "strategy" =>
          /\ position' = position
          /\ position_cost' = position_cost
          /\ realized_pnl' = realized_pnl
      ]_vars

\* C21 witness: the strategy has returned having changed the map it was
\* handed, which showed a position that was not zero
C21_Witness ==
    /\ pc = "orders"
    /\ state_position # << >>
    /\ state_position # position
    /\ \E p \in Products : position[p] # 0

\* C22 as stated: a strategy that modifies the books it is handed changes
\* neither the books the tick's orders are matched against nor the
\* mid-price the tick is marked at.
C22_BookReadOnly ==
    (pc \in {"orders", "aborted"} /\ built_depths # << >>) =>
        /\ order_depths = built_depths
        /\ m_result.called =>
              m_result = match_order(m_order, built_depths[m_order.symbol])
        /\ \A p \in DOMAIN built_depths :
              TwoSided(built_depths[p]) =>
                  /\ p \in DOMAIN last_prices
                  /\ last_prices[p] = MidPrice(built_depths[p])

\* C23 as stated: in the mean-reversion replay the position change applied
\* for an order is at most the quantity the tick's book holds at the levels
\* that qualify for it (asks at or below the order price for a buy, bids at
\* or above it for a sell), and an order no level can satisfy changes no
\* position.
C23_NoFabricatedLiquidity ==
    (pc = "mr_orders" /\ m_order # NoOrder) =>
        /\ LastFill.product = m_order.symbol
        /\ Abs(LastFill.quantity) <=
              SimQualVolume(m_order, order_depths[m_order.symbol])

\* C24 as stated: in the market-making replay, every fill that opposes the
\* position held adds closing_qty x (price - average entry) x sign(old
\* position) to realized_pnl[product], closing_qty = min(|old|, |qty|): a
\* gain for a long closed above its entry and for a short closed below it.
C24_MMRealizedPnl ==
    [][\A p \in MMProducts :
          LET old == position[p]
              q == position'[p] - old
              e == order_log'[Len(order_log')]
              closing_qty == MinI(Abs(old), Abs(q))
          IN  (pc = "mm_ledger" /\ old # 0 /\ q # 0 /\ Sign(q) = -Sign(old)) =>
                 trader_realized_pnl'[p] =
                     RAdd(trader_realized_pnl[p],
                          RMul(RInt(closing_qty * Sign(old)),
                               RSub(e.price, cost_basis[p])))
      ]_vars

\* the net cash flow of the fills logged so far: minus quantity x price
NetCash ==
    RSub(RZero,
         RSum(DOMAIN order_log,
              [i \in DOMAIN order_log |->
                  RMul(RInt(order_log[i].quantity), order_log[i].price)]))

TotalCost == RSum(Products, position_cost)

Held == {p \in Products : position[p] # 0}

Priced == {p \in Products : p \in DOMAIN last_prices}

\* position x mark price, over the open positions that have a mark price
MarkValue ==
    RSum(Held \cap Priced,
         [p \in Products |->
             IF p \in Priced THEN RMul(RInt(position[p]), last_prices[p]) ELSE RZero])

\* C25 as stated: realized PnL minus the sum of the cost bases is the net
\* cash flow of the fills; equivalently, realized + unrealized PnL is the net
\* cash flow plus the mark value of the open positions.
C25_AccountingIdentity ==
    /\ RSub(realized_pnl, TotalCost) = NetCash
    /\ TickMarked => LastSnap.total_pnl = RAdd(NetCash, MarkValue)

\* C25 amended: realized PnL minus the sum of the cost bases is the net cash
\* flow of the fills; realized + unrealized PnL is the net cash flow plus the
\* mark value of the open positions that have a mark price plus the cost
\* basis of the open positions that have none yet.
C25_AccountingIdentityAtCost ==
    /\ RSub(realized_pnl, TotalCost) = NetCash
    /\ TickMarked =>
          LastSnap.total_pnl =
              RAdd(RAdd(NetCash, MarkValue),
                   RSum(Held \ Priced, position_cost))

\* C25 witness: a tick closed with one instrument bought from a book that
\* never had bids, so held without a mark price, and a realized PnL that is
\* not zero from another
C25_Witness ==
    /\ TickMarked
    /\ Held \ Priced # {}
    /\ realized_pnl # RZero
    /\ LastSnap.total_pnl # RAdd(NetCash, MarkValue)

\* C26: maximal fill.  For an order of non-zero quantity and a book whose
\* stored level quantities are strictly positive, the magnitude of the fill
\* that match_order returns is exactly the smaller of the requested magnitude
\* and the total quantity at the qualifying levels, in basket_simulator.py and
\* in MarketMaking/simulate.py alike: no qualifying liquidity is left unused
\* while the order is still unfilled.
C26_MaximalFill ==
    /\ (m_result.called /\ m_order.quantity # 0) =>
          Abs(m_result.qty) =
              MinI(Abs(m_order.quantity), QualVolume(m_order, m_depth))
    /\ (mm_result.called /\ m_order.quantity # 0) =>
          Abs(mm_result.qty) =
              MinI(Abs(m_order.quantity), SimQualVolume(m_order, m_depth))

\* C26 witness: a limit buy larger than the two ask levels at or below its
\* limit has gone through both matchers and emptied both levels, with a
\* third ask left beyond the limit
C26_Witness ==
    /\ pc = "mm_matched"
    /\ m_order.quantity > 0 /\ m_order.price # 0
    /\ Cardinality(QualAsks(m_order, m_depth)) = 2
    /\ Asks(m_depth) # QualAsks(m_order, m_depth)
    /\ m_order.quantity > QualVolume(m_order, m_depth)
    /\ m_result.qty = QualVolume(m_order, m_depth)
    /\ mm_result.qty = SimQualVolume(m_order, m_depth)
    /\ Len(mm_result.taken) = 2

\* a tick of the basket replay has just been closed
BasketTickClosed == pc \in {"bk_loop", "bk_done"} /\ ti > 0

\* C28: the basket strategy's flag agrees with the ledger.  At the end of
\* every tick of the basket replay, in_position = False implies that the
\* positions of PICNIC_BASKET1, CROISSANTS, JAMS and DJEMBES are all zero.
C28_FlagAgreesWithLedger ==
    (BasketTickClosed /\ ~in_position) => \A p \in Products : position[p] = 0

\* a required product is shown with an empty bid ladder or an empty ask
\* ladder
MissingSide(depths) ==
    \E i \in DOMAIN required :
        /\ required[i] \in DOMAIN depths
        /\ ~TwoSided(depths[required[i]])

\* C29: the basket strategy on missing data.  On a tick where one of the
\* four required products has an empty bid ladder or an empty ask ladder,
\* act emits no orders and leaves in_position as it was.
C29_MissingDataNoAction ==
    [][(pc = "bk_loop" /\ pc' = "bk_orders" /\ MissingSide(order_depths')) =>
          /\ orders' = << >>
          /\ in_position' = in_position
      ]_vars

\* the product of the latest trader.run
TraderProduct == CHOOSE p \in DOMAIN state_position : TRUE

\* the total of the buy quantities and of the sell magnitudes in a list of
\* orders
RECURSIVE BuyTotal(_)
BuyTotal(os) ==
    IF os = << >> THEN 0
    ELSE (IF Head(os).quantity > 0 THEN Head(os).quantity ELSE 0) + BuyTotal(Tail(os))

RECURSIVE SellTotal(_)
SellTotal(os) ==
    IF os = << >> THEN 0
    ELSE (IF Head(os).quantity < 0 THEN -Head(os).quantity ELSE 0) + SellTotal(Tail(os))

\* C27: position-limit headroom of the market-making Trader.run.  On every
\* tick handed a position within [-limit, limit], the buy orders emitted
\* total at most limit - position and the sell orders emitted total at most
\* limit + position.
C27_PositionLimitHeadroom ==
    state_position # << >> =>
        LET limit == position_limits[TraderProduct]
            pos == state_position[TraderProduct]
        IN  /\ BuyTotal(orders) <= limit - pos
            /\ SellTotal(orders) <= limit + pos

\* what a fill of q at price realises against a position old of cost basis
\* cost, from those four values alone
OwnPnl(old, cost, q, price) ==
    IF old # 0 /\ q # 0 /\ Sign(q) = -Sign(old)
    THEN RMul(RInt(MinI(Abs(old), Abs(q)) * Sign(old)),
              RSub(price, RDiv(cost, RInt(old))))
    ELSE RZero

\* C30: per-instrument independence of the ledger.  A step that applies a
\* fill for instrument A leaves the position and the cost basis of every
\* other instrument as they were, and adds to realized PnL an amount that is
\* a function of A's position and cost basis before the fill and of the
\* fill's quantity and price only.
C30_PerInstrumentIndependence ==
    [][Len(order_log') = Len(order_log) + 1 =>
          LET e == order_log'[Len(order_log')]
              A == e.product
          IN  /\ \A B \in Products \ {A} :
                    /\ position'[B] = position[B]
                    /\ position_cost'[B] = position_cost[B]
              /\ realized_pnl' =
                    RAdd(realized_pnl,
                         OwnPnl(position[A], position_cost[A], e.quantity, e.price))
      ]_vars

\* C30 witness: a fill that closed part of one instrument at a PnL that is
\* not zero while another instrument was held at a different average entry
C30_Witness ==
    /\ order_log # << >>
    /\ LastFill.trade_pnl # RZero
    /\ \E B \in Products \ {LastFill.product} :
          /\ position[B] # 0
          /\ position_cost[B] # RMul(RInt(position[B]), LastFill.price)
          /\ \E i \in DOMAIN order_log :
                /\ order_log[i].product = LastFill.product
                /\ \E j \in DOMAIN order_log :
                      order_log[j].product = B
                        /\ order_log[j].price # order_log[i].price

\* C8 as stated: an order for an instrument with no book in the current tick
\* is a zero fill and the run goes on.
C8_UnknownInstrumentZeroFill ==
    (m_order # NoOrder /\ m_order.symbol \notin DOMAIN order_depths) =>
        /\ pc # "aborted"
        /\ m_result.called /\ m_result.qty = 0

\* C9: zero-quantity order.  A pass of the order loop over an order of
\* quantity 0 gets fill quantity 0 at price 0 from match_order and leaves
\* position, cost basis, realized PnL and the fill log as they were; the fill
\* log never holds an entry of quantity 0.
C9_ZeroQuantity ==
    [][/\ (pc = "orders" /\ pc' = "orders" /\ n_orders' = n_orders + 1
              /\ m_order'.quantity = 0) =>
             /\ m_result'.called
             /\ m_result'.qty = 0
             /\ m_result'.price = RZero
             /\ UNCHANGED ledger
       /\ \A i \in DOMAIN order_log' : order_log'[i].quantity # 0
      ]_vars

\* C9 witness: a zero-quantity limit sell handled while a position is held
\* and a bid at its limit rests in the book
C9_Witness ==
    /\ pc = "orders"
    /\ m_order # NoOrder /\ m_order.quantity = 0 /\ m_order.price # 0
    /\ m_result.called /\ m_result.qty = 0
    /\ m_order.symbol \in DOMAIN order_depths
    /\ m_order.price \in DOMAIN order_depths[m_order.symbol].buy_orders
    /\ position[m_order.symbol] # 0

====
